---- MODULE Spec2Model ----
(***************************************************************************)
(* Temporal feature-window and labelling engine of the crash-hotspot       *)
(* pipeline (scripts/build_temporal_features.py).                          *)
(*                                                                         *)
(* Timestamps are day numbers.  A table (pandas DataFrame) is a sequence   *)
(* of records, one record per row, one field per column.                   *)
(***************************************************************************)
EXTENDS Integers, Sequences, FiniteSets, TLC

VARIABLES
    pc,            \* position of main()
    crashes,       \* table returned by load_crashes()
    people,        \* table returned by load_people()
    cutoff_dates,  \* the schedule built by pd.date_range
    all_features,  \* list of the per-cutoff tables built so far
    static_data,   \* static attributes after drop_duplicates
    combined,      \* the combined table
    out_file,      \* data/processed/intersection_features_temporal.parquet
    enriched_file, \* data/processed/intersection_features_enriched.parquet
    err,           \* exception that ended the run, or NoError
    arg,           \* arguments of a function called on its own
    ret            \* what that call returned, or Pending

vars == <<pc, crashes, people, cutoff_dates, all_features, static_data,
          combined, out_file, enriched_file, err, arg, ret>>

mainVars == <<pc, crashes, people, cutoff_dates, all_features, static_data,
              combined, out_file, enriched_file, err>>
callVars == <<arg, ret>>

----------------------------------------------------------------------------
(* Program constants *)

HISTORY_DAYS == 365
RECENT_DAYS == 90
PREDICT_DAYS == 180
START_MARGIN_DAYS == 90
\* HOTSPOT_TOP_PCT = 0.10, kept as a percentage
HOTSPOT_TOP_PCT == 10

\* Missing values: NaN / NaT in numeric and timestamp columns, None in
\* string columns.  BadDate is a crash_date text that does not parse.
NaN == -1
NaT == NaN
None == "<NA>"
BadDate == -2

\* Written to `err` while no exception has been raised.
NoError == "none"
\* A file that does not exist.
Absent == [exists |-> FALSE, rows |-> <<>>]
\* A file holding the rows T.
File(T) == [exists |-> TRUE, rows |-> T]
\* Value of ret before the call, and of arg / ret outside such a call.
Pending == <<"pending">>

----------------------------------------------------------------------------
(* Bounds of the model *)

\* largest number of rows of the crash file read by main()
MaxCrashes == 3
\* largest number of event rows (crashes plus people) handed to a function
\* called on its own
MaxEvents == 3
\* largest number of rows of the events table handed to an aggregator called
\* on its own
MaxRows == 2

Intersections == {1, 2}

\* The day grid: day 0 and, for the cutoffs anchored at day 0, the window
\* boundaries cutoff - 365, cutoff - 90 and cutoff of three periods.
Times ==
    {0} \cup { o + k * PREDICT_DAYS :
                 o \in {START_MARGIN_DAYS, HISTORY_DAYS,
                        HISTORY_DAYS + START_MARGIN_DAYS},
                 k \in 0..2 }

----------------------------------------------------------------------------
(* Generic table helpers (pandas semantics) *)

RECURSIVE SumSeq(_)
SumSeq(s) == IF s = <<>> THEN 0 ELSE Head(s) + SumSeq(Tail(s))

RECURSIVE Flatten(_)
Flatten(ss) == IF ss = <<>> THEN <<>> ELSE Head(ss) \o Flatten(Tail(ss))

RECURSIVE SetToSortedSeq(_)
SetToSortedSeq(S) ==
    IF S = {} THEN <<>>
    ELSE LET m == CHOOSE x \in S : \A y \in S : x <= y
         IN  <<m>> \o SetToSortedSeq(S \ {m})

Column(T, col) == [n \in 1..Len(T) |-> T[n][col]]

KeySet(T) == {T[n].intersection_id : n \in 1..Len(T)}

RowsWithKey(T, k) == SelectSeq(T, LAMBDA r : r.intersection_id = k)

\* Series.count(): the number of non-null values of a string column
count(T, col) == Len(SelectSeq(T, LAMBDA r : r[col] # None))

\* (s == value).sum()
count_equal(T, col, value) == Len(SelectSeq(T, LAMBDA r : r[col] = value))

NullRow(cols) == [c \in cols |-> NaN]

\* fillna(0) run before the future columns are merged in
fillna0_before_future_merge(T) ==
    [n \in 1..Len(T) |->
        [c \in DOMAIN T[n] |->
            IF T[n][c] = NaN /\ c \notin {"future_crashes", "future_severity"}
            THEN 0 ELSE T[n][c]]]

\* fillna(0) left out
fillna0_left_out(T) == T

\* DataFrame.fillna(0) on a table of numeric columns
fillna0(T) ==
    [n \in 1..Len(T) |->
        [c \in DOMAIN T[n] |-> IF T[n][c] = NaN THEN 0 ELSE T[n][c]]]

\* dropna left out: every row is kept
dropna_left_out(T, cols) == T

\* DataFrame.dropna(subset=cols) for numeric / timestamp columns
dropna(T, cols) == SelectSeq(T, LAMBDA r : \A c \in cols : r[c] # NaN)

\* pd.to_datetime(x, errors="coerce")
to_datetime(x) == IF x = BadDate THEN NaT ELSE x

\* every pair of a row of ls with a row of rs, ls-major
Cross(ls, rs) ==
    [n \in 1..(Len(ls) * Len(rs)) |->
        ls[((n - 1) \div Len(rs)) + 1] @@ rs[((n - 1) % Len(rs)) + 1]]

\* the merge made with how="left": the keys of R alone are lost
merge_outer_as_left(L, R, lcols, rcols) ==
    LET RowsFor(l) ==
            LET rs == RowsWithKey(R, l.intersection_id)
            IN  IF rs = <<>> THEN <<l @@ NullRow(rcols)>>
                ELSE [n \in 1..Len(rs) |-> l @@ rs[n]]
    IN  Flatten([n \in 1..Len(L) |-> RowsFor(L[n])])

\* L.merge(R, on="intersection_id", how="outer"); lcols / rcols are the
\* non-key columns of L / R.  Keys come out sorted.
merge_outer(L, R, lcols, rcols) ==
    LET keys == SetToSortedSeq(KeySet(L) \cup KeySet(R))
        RowsFor(k) ==
            LET ls == RowsWithKey(L, k)
                rs == RowsWithKey(R, k)
            IN  IF ls = <<>>
                THEN [n \in 1..Len(rs) |-> rs[n] @@ NullRow(lcols)]
                ELSE IF rs = <<>>
                THEN [n \in 1..Len(ls) |-> ls[n] @@ NullRow(rcols)]
                ELSE Cross(ls, rs)
    IN  Flatten([n \in 1..Len(keys) |-> RowsFor(keys[n])])

\* the merge made with how="inner": the rows of L without a match are lost
merge_left_as_inner(L, R, rcols) ==
    LET RowsFor(l) ==
            LET rs == RowsWithKey(R, l.intersection_id)
            IN  [n \in 1..Len(rs) |-> l @@ rs[n]]
    IN  Flatten([n \in 1..Len(L) |-> RowsFor(L[n])])

\* L.merge(R, on="intersection_id", how="left"): the rows of L in order
merge_left(L, R, rcols) ==
    LET RowsFor(l) ==
            LET rs == RowsWithKey(R, l.intersection_id)
            IN  IF rs = <<>> THEN <<l @@ NullRow(rcols)>>
                ELSE [n \in 1..Len(rs) |-> l @@ rs[n]]
    IN  Flatten([n \in 1..Len(L) |-> RowsFor(L[n])])

\* drop_duplicates left out: the static rows as read
drop_duplicates_left_out(T) == T

\* DataFrame.drop_duplicates(subset=["intersection_id"]): keeps the first
drop_duplicates(T) ==
    LET first(n) == \A j \in 1..(n - 1) : T[j].intersection_id # T[n].intersection_id
        keep == SetToSortedSeq({n \in 1..Len(T) : first(n)})
    IN  [j \in 1..Len(keep) |-> T[keep[j]]]

----------------------------------------------------------------------------
(* scripts/build_temporal_features.py *)

\* SEVERITY_WEIGHTS, as used by Series.map: NaN for a key not in the dict
SEVERITY_WEIGHTS(cat) ==
    CASE cat = "FATAL" -> 5
      [] cat = "INCAPACITATING INJURY" -> 4
      [] cat = "NONINCAPACITATING INJURY" -> 3
      [] cat = "REPORTED, NOT EVIDENT" -> 2
      [] cat = "NO INDICATION OF INJURY" -> 1
      [] OTHER -> NaN

\* the mapping without fillna(1)
severity_wt_no_default(cat) == SEVERITY_WEIGHTS(cat)

\* severity_wt = most_severe_injury.map(SEVERITY_WEIGHTS).fillna(1)
severity_wt(cat) ==
    IF SEVERITY_WEIGHTS(cat) = NaN THEN 1 ELSE SEVERITY_WEIGHTS(cat)

\* load_crashes() applied to the rows of crashes_with_nodes.parquet
load_crashes(raw) ==
    LET a == dropna(raw, {"intersection_id", "crash_date"})
        b == [n \in 1..Len(a) |->
                a[n] @@ [crash_dt |-> to_datetime(a[n].crash_date)]]
        c == dropna(b, {"crash_dt"})
    IN  [n \in 1..Len(c) |->
            c[n] @@ [severity_wt |-> severity_wt(c[n].most_severe_injury)]]

\* load_people() applied to the rows of people_with_nodes.parquet
load_people(raw) ==
    LET a == dropna(raw, {"intersection_id", "crash_dt"})
        b == [n \in 1..Len(a) |->
                [a[n] EXCEPT !.crash_dt = to_datetime(a[n].crash_dt)]]
    IN  dropna(b, {"crash_dt"})

\* the mask with an inclusive end
InWindow_closed_end(r, start, end) == r.crash_dt >= start /\ r.crash_dt <= end

\* the mask without its lower bound: everything before the end
InWindow_no_start(r, start, end) == r.crash_dt < end

\* the boolean mask of both aggregators
InWindow(r, start, end) == r.crash_dt >= start /\ r.crash_dt < end

aggregate_crashes(T, start, end) ==
    LET sub == SelectSeq(T, LAMBDA r : InWindow(r, start, end))
        keys == SetToSortedSeq(KeySet(sub))
    IN  [n \in 1..Len(keys) |->
            LET g == RowsWithKey(sub, keys[n])
            IN  [intersection_id |-> keys[n],
                 crashes_count |-> count(g, "crash_record_id"),
                 severity_sum |-> SumSeq(Column(g, "severity_wt"))]]

aggregate_injuries(T, start, end) ==
    LET sub == SelectSeq(T, LAMBDA r : InWindow(r, start, end))
        keys == SetToSortedSeq(KeySet(sub))
    IN  [n \in 1..Len(keys) |->
            LET g == RowsWithKey(sub, keys[n])
            IN  [intersection_id |-> keys[n],
                 injuries_total |-> count(g, "injury_classification"),
                 injuries_fatal |->
                     count_equal(g, "injury_classification", "FATAL"),
                 injuries_incapacitating |->
                     count_equal(g, "injury_classification",
                                 "INCAPACITATING INJURY"),
                 injuries_nonincap |->
                     count_equal(g, "injury_classification",
                                 "NONINCAPACITATING INJURY")]]

\* rename(columns=...) of an aggregate_crashes result
rename_crashes(T, cnt, sev) ==
    [n \in 1..Len(T) |->
        [intersection_id |-> T[n].intersection_id]
        @@ (cnt :> T[n].crashes_count) @@ (sev :> T[n].severity_sum)]

\* rename(columns=...) of an aggregate_injuries result
rename_injuries(T, prefix) ==
    [n \in 1..Len(T) |->
        [intersection_id |-> T[n].intersection_id]
        @@ ((prefix \o "_injuries_total") :> T[n].injuries_total)
        @@ ((prefix \o "_injuries_fatal") :> T[n].injuries_fatal)
        @@ ((prefix \o "_injuries_incapacitating")
                :> T[n].injuries_incapacitating)
        @@ ((prefix \o "_injuries_nonincap") :> T[n].injuries_nonincap)]

InjuryCols(prefix) ==
    {prefix \o "_injuries_total", prefix \o "_injuries_fatal",
     prefix \o "_injuries_incapacitating", prefix \o "_injuries_nonincap"}

\* a history window that starts after the recent window
hist_start_after_recent(cutoff_date) == cutoff_date - (RECENT_DAYS - 1)

\* line 110
hist_start(cutoff_date) == cutoff_date - HISTORY_DAYS
\* line 111
recent_start(cutoff_date) == cutoff_date - RECENT_DAYS

build_features_for_cutoff(cr, pe, cutoff_date) ==
    LET future_end == cutoff_date + PREDICT_DAYS
        hist_crashes ==
            rename_crashes(aggregate_crashes(cr, hist_start(cutoff_date),
                                             cutoff_date),
                           "hist_crashes", "hist_severity")
        hist_injuries ==
            rename_injuries(aggregate_injuries(pe, hist_start(cutoff_date),
                                               cutoff_date),
                            "hist")
        recent_crashes ==
            rename_crashes(aggregate_crashes(cr, recent_start(cutoff_date),
                                             cutoff_date),
                           "recent90_crashes", "recent90_severity")
        recent_injuries ==
            rename_injuries(aggregate_injuries(pe, recent_start(cutoff_date),
                                               cutoff_date),
                            "recent90")
        future_crashes ==
            rename_crashes(aggregate_crashes(cr, cutoff_date, future_end),
                           "future_crashes", "future_severity")
        m1 == merge_outer(hist_crashes, hist_injuries,
                          {"hist_crashes", "hist_severity"},
                          InjuryCols("hist"))
        m2 == merge_outer(m1, recent_crashes,
                          {"hist_crashes", "hist_severity"}
                              \cup InjuryCols("hist"),
                          {"recent90_crashes", "recent90_severity"})
        m3 == merge_outer(m2, recent_injuries,
                          {"hist_crashes", "hist_severity",
                           "recent90_crashes", "recent90_severity"}
                              \cup InjuryCols("hist"),
                          InjuryCols("recent90"))
        m4 == merge_outer(m3, future_crashes,
                          {"hist_crashes", "hist_severity",
                           "recent90_crashes", "recent90_severity"}
                              \cup InjuryCols("hist")
                              \cup InjuryCols("recent90"),
                          {"future_crashes", "future_severity"})
        feats == fillna0(m4)
    IN  [n \in 1..Len(feats) |-> feats[n] @@ [cutoff_date |-> cutoff_date]]

\* a range that advances by half the step
date_range_half_step(start, end, step) ==
    IF start > end THEN <<>>
    ELSE [k \in 1..(((end - start) \div (step \div 2)) + 1) |->
            start + (k - 1) * (step \div 2)]

\* pd.date_range(start, end, freq=f"{step}D")
date_range(start, end, step) ==
    IF start > end THEN <<>>
    ELSE [k \in 1..(((end - start) \div step) + 1) |-> start + (k - 1) * step]

min_dt(T) == CHOOSE t \in {T[n].crash_dt : n \in 1..Len(T)} :
                \A n \in 1..Len(T) : t <= T[n].crash_dt
max_dt(T) == CHOOSE t \in {T[n].crash_dt : n \in 1..Len(T)} :
                \A n \in 1..Len(T) : t >= T[n].crash_dt

\* the first cutoff without the 90-day margin
first_cutoff_no_margin(T) == min_dt(T) + HISTORY_DAYS

\* the last cutoff without room for the future window
last_cutoff_no_lookahead(T) == max_dt(T)

first_cutoff(T) == min_dt(T) + (HISTORY_DAYS + START_MARGIN_DAYS)
last_cutoff(T) == max_dt(T) - PREDICT_DAYS

\* Series.quantile(pct / 100), linear interpolation, times 100
quantile100(vals, pct) ==
    LET s == SortSeq(vals, LAMBDA a, b : a < b)
        pos == (Len(s) - 1) * pct
        lo == (pos \div 100) + 1
        fr == pos % 100
        hi == IF fr = 0 THEN lo ELSE lo + 1
    IN  100 * s[lo] + fr * (s[hi] - s[lo])

\* one threshold over the rows of all cutoffs
threshold100_global(T, cutoff) ==
    quantile100(Column(T, "future_crashes"), 100 - HOTSPOT_TOP_PCT)

\* the threshold of the rows selected by `mask`, times 100
threshold100(T, cutoff) ==
    quantile100(Column(SelectSeq(T, LAMBDA r : r.cutoff_date = cutoff),
                       "future_crashes"),
                100 - HOTSPOT_TOP_PCT)

\* the label loop of main(): one threshold per distinct cutoff_date
assign_labels(T) ==
    [n \in 1..Len(T) |->
        T[n] @@ [label_hotspot |->
                    IF 100 * T[n].future_crashes
                           >= threshold100(T, T[n].cutoff_date)
                    THEN 1 ELSE 0]]

----------------------------------------------------------------------------
(* Input files *)

RecordId(k) == ToString(k)

\* most_severe_injury of the k-th row of the crash file: a recognised
\* category, a missing one, another recognised one, an unrecognised one, ...
Severities ==
    <<"FATAL", None, "NO INDICATION OF INJURY", "UNABLE TO DETERMINE">>

CrashRow(k, t, i) ==
    [crash_record_id |-> RecordId(k), crash_date |-> t, intersection_id |-> i,
     most_severe_injury |-> Severities[((k - 1) % Len(Severities)) + 1]]

PersonRow(t, i, c) ==
    [intersection_id |-> i, injury_classification |-> c, crash_dt |-> t]

\* rows in file order: by date, then by intersection
Ordered(f) ==
    \A n \in 1..(Len(f) - 1) :
        \/ f[n][1] < f[n + 1][1]
        \/ f[n][1] = f[n + 1][1] /\ f[n][2] <= f[n + 1][2]

\* the date-ordered lists of exactly m (day, intersection) pairs
EventLists(m, days) ==
    {f \in [1..m -> days \X Intersections] : Ordered(f)}

\* crash files whose rows are all complete
CleanCrashFiles(n, days) ==
    UNION { { [k \in 1..m |-> CrashRow(k, f[k][1], f[k][2])] :
                f \in EventLists(m, days) } : m \in 0..n }

\* a last row with a missing intersection, a missing date or a date text
\* that does not parse
DirtyCrashRows(k) ==
    { CrashRow(k, 0, NaN), CrashRow(k, NaN, 1), CrashRow(k, BadDate, 1) }

\* files of four crashes that give a cutoff a partition of two rows: a
\* first crash on day 0, one crash at each intersection in the windows of
\* the first cutoff, and a last crash that ends the data
BusyCrashFiles ==
    { <<CrashRow(1, 0, 1), CrashRow(2, t, 1), CrashRow(3, u, 2),
        CrashRow(4, e, i)>> :
        t \in {HISTORY_DAYS, HISTORY_DAYS + START_MARGIN_DAYS},
        u \in {HISTORY_DAYS, HISTORY_DAYS + START_MARGIN_DAYS},
        e \in {HISTORY_DAYS + START_MARGIN_DAYS + PREDICT_DAYS,
               HISTORY_DAYS + START_MARGIN_DAYS + 2 * PREDICT_DAYS},
        i \in Intersections }

CrashFiles ==
    CleanCrashFiles(MaxCrashes, Times)
    \cup { Append(f, d) : f \in CleanCrashFiles(MaxCrashes - 1, Times),
                          d \in DirtyCrashRows(MaxCrashes) }
    \cup BusyCrashFiles

InjuryClasses == {"FATAL", None}

\* people_with_nodes.parquet as clean_people.py links it to the crash file:
\* no person, or one person of one crash, or one person without intersection
\* or without date
PeopleFiles(cr) ==
    {<<>>}
    \cup { <<PersonRow(cr[k].crash_dt, cr[k].intersection_id, c)>> :
              k \in 1..Len(cr), c \in InjuryClasses }
    \cup { <<PersonRow(0, NaN, "FATAL")>>, <<PersonRow(NaT, 1, "FATAL")>> }

\* people tables of exactly m rows
PeopleTables(m, days) ==
    { [k \in 1..m |-> PersonRow(f[k][1], f[k][2], c[k])] :
        f \in EventLists(m, days), c \in [1..m -> InjuryClasses] }

\* crash tables of exactly m rows, as load_crashes returns them
CrashTables(m, days) ==
    { load_crashes([k \in 1..m |-> CrashRow(k, f[k][1], f[k][2])]) :
        f \in EventLists(m, days) }

StaticRow(i, v) == [intersection_id |-> i, centrality_degree |-> v]

\* intersection_features_enriched.parquet: a file that lists one
\* intersection only, and a file that lists an intersection twice, with
\* different values, around an intersection with a missing attribute
StaticFiles ==
    { <<StaticRow(1, 7)>>,
      <<StaticRow(2, 7), StaticRow(1, NaN), StaticRow(2, 8)>> }

----------------------------------------------------------------------------
(* main() of build_temporal_features.py, one action per step *)

Init ==
    /\ pc = "load_crashes"
    /\ crashes = <<>>
    /\ people = <<>>
    /\ cutoff_dates = <<>>
    /\ all_features = <<>>
    /\ static_data = <<>>
    /\ combined = <<>>
    /\ out_file = Absent
    /\ enriched_file \in {Absent} \cup {File(f) : f \in StaticFiles}
    /\ err = NoError
    /\ arg = Pending
    /\ ret = Pending

Fail(e) ==
    /\ pc' = "failed"
    /\ err' = e

\* line 169
LoadCrashes ==
    /\ pc = "load_crashes"
    /\ \E raw \in CrashFiles : crashes' = load_crashes(raw)
    /\ pc' = "load_people"
    /\ UNCHANGED <<people, cutoff_dates, all_features, static_data,
                   combined, out_file, err, arg, ret, enriched_file>>

\* line 169, crashes_with_nodes.parquet does not exist
LoadCrashesMissing ==
    /\ pc = "load_crashes"
    /\ Fail("FileNotFoundError")
    /\ UNCHANGED <<crashes, people, cutoff_dates, all_features, static_data,
                   combined, out_file, arg, ret, enriched_file>>

\* line 170
LoadPeople ==
    /\ pc = "load_people"
    /\ \E raw \in PeopleFiles(crashes) : people' = load_people(raw)
    /\ pc' = "schedule"
    /\ UNCHANGED <<crashes, cutoff_dates, all_features, static_data,
                   combined, out_file, err, arg, ret, enriched_file>>

\* line 170, people_with_nodes.parquet does not exist
LoadPeopleMissing ==
    /\ pc = "load_people"
    /\ Fail("FileNotFoundError")
    /\ UNCHANGED <<crashes, people, cutoff_dates, all_features, static_data,
                   combined, out_file, arg, ret, enriched_file>>

\* lines 173-175 on an empty crash table: min() is NaT and NaT.date() raises
ScheduleNoData ==
    /\ pc = "schedule"
    /\ crashes = <<>>
    /\ Fail("ValueError")
    /\ UNCHANGED <<crashes, people, cutoff_dates, all_features, static_data,
                   combined, out_file, arg, ret, enriched_file>>

\* lines 173-192 when date_range is empty: cutoff_dates[0] raises
ScheduleEmpty ==
    /\ pc = "schedule"
    /\ crashes # <<>>
    /\ date_range(first_cutoff(crashes), last_cutoff(crashes), PREDICT_DAYS)
           = <<>>
    /\ Fail("IndexError")
    /\ UNCHANGED <<crashes, people, cutoff_dates, all_features, static_data,
                   combined, out_file, arg, ret, enriched_file>>

\* lines 173-192
Schedule ==
    /\ pc = "schedule"
    /\ crashes # <<>>
    /\ date_range(first_cutoff(crashes), last_cutoff(crashes), PREDICT_DAYS)
           # <<>>
    /\ cutoff_dates' =
           date_range(first_cutoff(crashes), last_cutoff(crashes), PREDICT_DAYS)
    /\ pc' = "build"
    /\ UNCHANGED <<crashes, people, all_features, static_data, combined,
                   out_file, err, arg, ret, enriched_file>>

\* lines 196-199, one iteration
BuildCutoff ==
    /\ pc = "build"
    /\ Len(all_features) < Len(cutoff_dates)
    /\ all_features' =
           Append(all_features,
                  build_features_for_cutoff(
                      crashes, people, cutoff_dates[Len(all_features) + 1]))
    /\ UNCHANGED <<pc, crashes, people, cutoff_dates, static_data, combined,
                   out_file, err, arg, ret, enriched_file>>

\* lines 196-199, an iteration in which build_features_for_cutoff raises:
\* main() has no handler, the exception ends the run
BuildCutoffFails ==
    /\ pc = "build"
    /\ Len(all_features) < Len(cutoff_dates)
    /\ Fail("Exception")
    /\ UNCHANGED <<crashes, people, cutoff_dates, all_features, static_data,
                   combined, out_file, arg, ret, enriched_file>>

\* line 202
Concat ==
    /\ pc = "build"
    /\ Len(all_features) = Len(cutoff_dates)
    /\ combined' = Flatten(all_features)
    /\ pc' = "read_static"
    /\ UNCHANGED <<crashes, people, cutoff_dates, all_features, static_data,
                   out_file, err, arg, ret, enriched_file>>

\* lines 208-225
JoinStatic ==
    /\ pc = "read_static"
    /\ enriched_file.exists
    /\ LET static_feats == enriched_file.rows
       IN  /\ static_data' = drop_duplicates(static_feats)
           /\ combined' = merge_left(combined, drop_duplicates(static_feats),
                                     {"centrality_degree"})
    /\ pc' = "label"
    /\ UNCHANGED <<crashes, people, cutoff_dates, all_features, out_file,
                   err, arg, ret, enriched_file>>

\* the combined table written out before the static file is found missing
JoinStaticMissing_partial_output ==
    /\ pc = "read_static"
    /\ ~enriched_file.exists
    /\ out_file' = File(combined)
    /\ Fail("FileNotFoundError")
    /\ UNCHANGED <<crashes, people, cutoff_dates, all_features, static_data,
                   combined, arg, ret, enriched_file>>

\* line 208, intersection_features_enriched.parquet does not exist
JoinStaticMissing ==
    /\ pc = "read_static"
    /\ ~enriched_file.exists
    /\ Fail("FileNotFoundError")
    /\ UNCHANGED <<crashes, people, cutoff_dates, all_features, static_data,
                   combined, out_file, arg, ret, enriched_file>>

\* lines 229-235
Label ==
    /\ pc = "label"
    /\ combined' = assign_labels(combined)
    /\ pc' = "save"
    /\ UNCHANGED <<crashes, people, cutoff_dates, all_features, static_data,
                   out_file, err, arg, ret, enriched_file>>

\* line 238
Save ==
    /\ pc = "save"
    /\ out_file' = File(combined)
    /\ pc' = "suggest_splits"
    /\ UNCHANGED <<crashes, people, cutoff_dates, all_features, static_data,
                   combined, err, arg, ret, enriched_file>>

\* line 247: sorted(combined["cutoff_date"].unique())
sorted_dates(T) == SetToSortedSeq({T[n].cutoff_date : n \in 1..Len(T)})

\* lines 240-254: the summary and the suggested splits are printed; the
\* prints index sorted_dates, which has an entry when the table has a row
SuggestSplits ==
    /\ pc = "suggest_splits"
    /\ sorted_dates(combined) # <<>>
    /\ pc' = "done"
    /\ UNCHANGED <<crashes, people, cutoff_dates, all_features, static_data,
                   combined, out_file, err, arg, ret, enriched_file>>

\* line 252: sorted_dates[0] of a table without rows
SuggestSplitsNoPeriods ==
    /\ pc = "suggest_splits"
    /\ sorted_dates(combined) = <<>>
    /\ Fail("IndexError")
    /\ UNCHANGED <<crashes, people, cutoff_dates, all_features, static_data,
                   combined, out_file, arg, ret, enriched_file>>

Next ==
    \/ LoadCrashes
    \/ LoadCrashesMissing
    \/ LoadPeople
    \/ LoadPeopleMissing
    \/ ScheduleNoData
    \/ ScheduleEmpty
    \/ Schedule
    \/ BuildCutoff
    \/ BuildCutoffFails
    \/ Concat
    \/ JoinStatic
    \/ JoinStaticMissing
    \/ Label
    \/ Save
    \/ SuggestSplits
    \/ SuggestSplitsNoPeriods

Spec == Init /\ [][Next]_vars

----------------------------------------------------------------------------
(* The aggregators and build_features_for_cutoff called on their own *)

\* the cutoff the calls are made for: the first cutoff of data starting at day 0
CallCutoff == HISTORY_DAYS + START_MARGIN_DAYS

\* the three windows of CallCutoff
CallWindows ==
    { <<CallCutoff - HISTORY_DAYS, CallCutoff>>,
      <<CallCutoff - RECENT_DAYS, CallCutoff>>,
      <<CallCutoff, CallCutoff + PREDICT_DAYS>> }

\* days before, on and between the boundaries of those windows
CallTimes ==
    {0, CallCutoff - HISTORY_DAYS, CallCutoff - HISTORY_DAYS + PREDICT_DAYS,
     CallCutoff - RECENT_DAYS, CallCutoff, CallCutoff + RECENT_DAYS,
     CallCutoff + PREDICT_DAYS}

InitCall ==
    /\ pc = "call"
    /\ crashes = <<>>
    /\ people = <<>>
    /\ cutoff_dates = <<>>
    /\ all_features = <<>>
    /\ static_data = <<>>
    /\ combined = <<>>
    /\ out_file = Absent
    /\ enriched_file = Absent
    /\ err = NoError
    /\ ret = Pending

\* the values of most_severe_injury: the five categories of
\* SEVERITY_WEIGHTS, a missing one and one that is not in the dict
InjuryCategories ==
    {"FATAL", "INCAPACITATING INJURY", "NONINCAPACITATING INJURY",
     "REPORTED, NOT EVIDENT", "NO INDICATION OF INJURY", None,
     "UNABLE TO DETERMINE"}

\* crash tables of exactly m rows with any category in any row, dated at
\* the start of the recent window: in the history and recent windows, not
\* in the future window
SeverityTables(m) ==
    { load_crashes([k \in 1..m |->
          [CrashRow(k, CallCutoff - RECENT_DAYS, r[k][1])
              EXCEPT !.most_severe_injury = r[k][2]]]) :
        r \in [1..m -> Intersections \X InjuryCategories] }

AggArgs ==
    { [fn |-> "aggregate_crashes", events |-> T, start |-> w[1], end |-> w[2]] :
        T \in UNION {CrashTables(m, CallTimes) \cup SeverityTables(m) :
                        m \in 0..MaxRows},
        w \in CallWindows }
    \cup
    { [fn |-> "aggregate_injuries", events |-> T, start |-> w[1], end |-> w[2]] :
        T \in UNION {PeopleTables(m, CallTimes) : m \in 0..MaxRows},
        w \in CallWindows }

InitAgg ==
    /\ InitCall
    /\ arg \in AggArgs

CallAggregateCrashes ==
    /\ pc = "call"
    /\ arg.fn = "aggregate_crashes"
    /\ ret' = aggregate_crashes(arg.events, arg.start, arg.end)
    /\ pc' = "returned"
    /\ UNCHANGED <<crashes, people, cutoff_dates, all_features, static_data,
                   combined, out_file, err, arg, enriched_file>>

CallAggregateInjuries ==
    /\ pc = "call"
    /\ arg.fn = "aggregate_injuries"
    /\ ret' = aggregate_injuries(arg.events, arg.start, arg.end)
    /\ pc' = "returned"
    /\ UNCHANGED <<crashes, people, cutoff_dates, all_features, static_data,
                   combined, out_file, err, arg, enriched_file>>

NextAgg ==
    \/ CallAggregateCrashes
    \/ CallAggregateInjuries

SpecAgg == InitAgg /\ [][NextAgg]_vars

----------------------------------------------------------------------------
(* An aggregator called several times on the same events table *)

\* the calls of one aggregator on one table: as many as a build has windows
CallsPerBuild == Cardinality(CallWindows)

\* an aggregator that removes from the events table the rows it aggregated
events_after_call_consumed(T, start, end) ==
    SelectSeq(T, LAMBDA r : ~InWindow(r, start, end))

\* the caller's events table after a call of an aggregator (lines 66-67 and
\* 81-82): loc[mask] copies the selected rows and groupby / agg work on
\* that copy, nothing is assigned to the argument
events_after_call(T, start, end) == T

InitRepeat ==
    /\ InitCall
    /\ \E fn \in {"aggregate_crashes", "aggregate_injuries"} :
       \E T \in UNION { IF fn = "aggregate_crashes"
                         THEN CrashTables(m, CallTimes)
                         ELSE PeopleTables(m, CallTimes) : m \in 1..MaxRows } :
          arg = [fn |-> "repeat", aggregator |-> fn, events |-> T,
                 original |-> T, log |-> <<>>]

\* one more call, for any window, on the table the earlier calls left
CallAgain ==
    /\ pc = "call"
    /\ arg.fn = "repeat"
    /\ Len(arg.log) < CallsPerBuild
    /\ \E w \in CallWindows :
          arg' = [arg EXCEPT
                    !.log = Append(@,
                        [start |-> w[1], end |-> w[2],
                         result |->
                             IF arg.aggregator = "aggregate_crashes"
                             THEN aggregate_crashes(arg.events, w[1], w[2])
                             ELSE aggregate_injuries(arg.events, w[1], w[2])]),
                    !.events = events_after_call(@, w[1], w[2])]
    /\ UNCHANGED <<pc, crashes, people, cutoff_dates, all_features,
                   static_data, combined, out_file, err, ret, enriched_file>>

NextRepeat == CallAgain

SpecRepeat == InitRepeat /\ [][NextRepeat]_vars

\* c crash rows and p people rows
BuildArgs(c, p) ==
    { [fn |-> "build_features_for_cutoff", crashes |-> C, people |-> P,
       cutoff_date |-> CallCutoff] :
        C \in CrashTables(c, CallTimes), P \in PeopleTables(p, CallTimes) }

InitBuild ==
    /\ InitCall
    /\ \E c \in 0..MaxEvents : \E p \in 0..(MaxEvents - c) :
          arg \in BuildArgs(c, p)

CallBuild ==
    /\ pc = "call"
    /\ arg.fn = "build_features_for_cutoff"
    /\ ret' = build_features_for_cutoff(arg.crashes, arg.people, arg.cutoff_date)
    /\ pc' = "returned"
    /\ UNCHANGED <<crashes, people, cutoff_dates, all_features, static_data,
                   combined, out_file, err, arg, enriched_file>>

NextBuild == CallBuild

SpecBuild == InitBuild /\ [][NextBuild]_vars

----------------------------------------------------------------------------
(* The label loop of main() applied to a combined table on its own *)

\* largest number of rows of such a table
MaxLabelRows == 4
\* largest future_crashes value of such a table
MaxFuture == 3

LabelRow(n, c, f) == [intersection_id |-> n, cutoff_date |-> c, future_crashes |-> f]

\* tables of exactly m rows over two cutoffs, the rows of the first cutoff
\* before those of the second as the concatenation of line 202 leaves them
LabelTables(m) ==
    { [n \in 1..m |->
          LabelRow(n, IF n <= k THEN CallCutoff ELSE CallCutoff + PREDICT_DAYS,
                   f[n])] :
        k \in 0..m, f \in [1..m -> 0..MaxFuture] }

\* the ten future counts of the scenario of the specification, one cutoff
ScenarioCounts == <<0, 0, 1, 1, 2, 2, 3, 5, 8, 10>>
ScenarioTable ==
    [n \in 1..Len(ScenarioCounts) |-> LabelRow(n, CallCutoff, ScenarioCounts[n])]

InitLabel ==
    /\ InitCall
    /\ \E T \in UNION {LabelTables(m) : m \in 0..MaxLabelRows} \cup {ScenarioTable} :
          arg = [fn |-> "assign_labels", combined |-> T]

CallAssignLabels ==
    /\ pc = "call"
    /\ arg.fn = "assign_labels"
    /\ ret' = assign_labels(arg.combined)
    /\ pc' = "returned"
    /\ UNCHANGED <<crashes, people, cutoff_dates, all_features, static_data,
                   combined, out_file, err, arg, enriched_file>>

NextLabel == CallAssignLabels

SpecLabel == InitLabel /\ [][NextLabel]_vars

----------------------------------------------------------------------------
(* The label rule of one partition, for any top fraction *)

\* top fractions, in percent: the builder's 0.10 and three larger ones
Fractions == {HOTSPOT_TOP_PCT, 30, 50, 90}

\* the rule with a strict comparison
label_rule_strict(vals, pct) ==
    [n \in 1..Len(vals) |->
        IF 100 * vals[n] > quantile100(vals, 100 - pct) THEN 1 ELSE 0]

\* the rule with the quantile of the fraction itself
label_rule_low_quantile(vals, pct) ==
    [n \in 1..Len(vals) |->
        IF 100 * vals[n] >= quantile100(vals, pct) THEN 1 ELSE 0]

\* lines 232-235 for the future_crashes values of one partition, with
\* HOTSPOT_TOP_PCT = pct / 100
label_rule(vals, pct) ==
    [n \in 1..Len(vals) |->
        IF 100 * vals[n] >= quantile100(vals, 100 - pct) THEN 1 ELSE 0]

\* the future_crashes columns of partitions of 1..m rows
PartitionValues(m) == UNION { [1..k -> 0..MaxFuture] : k \in 1..m }

InitRule ==
    /\ InitCall
    /\ \E v \in PartitionValues(MaxLabelRows) \cup {ScenarioCounts} :
       \E f1, f2 \in Fractions :
          /\ f1 <= f2
          /\ arg = [fn |-> "label_rule", vals |-> v, f1 |-> f1, f2 |-> f2]

\* the same partition labelled with the fraction f1 and with the fraction f2
CallLabelRule ==
    /\ pc = "call"
    /\ arg.fn = "label_rule"
    /\ ret' = [low |-> label_rule(arg.vals, arg.f1),
               high |-> label_rule(arg.vals, arg.f2)]
    /\ pc' = "returned"
    /\ UNCHANGED <<crashes, people, cutoff_dates, all_features, static_data,
                   combined, out_file, err, arg, enriched_file>>

NextRule == CallLabelRule

SpecRule == InitRule /\ [][NextRule]_vars

----------------------------------------------------------------------------
(* Two runs of main() side by side *)

\* lines 180-188: the schedule main() derives from the crash table
schedule(cr) == date_range(first_cutoff(cr), last_cutoff(cr), PREDICT_DAYS)

\* lines 172-235: the table main() has built when it reaches the save,
\* for a crash table with a non-empty schedule
main_table(cr, pe, static_feats) ==
    LET feats == [k \in 1..Len(schedule(cr)) |->
                    build_features_for_cutoff(cr, pe, schedule(cr)[k])]
    IN  assign_labels(merge_left(Flatten(feats), drop_duplicates(static_feats),
                                 {"centrality_degree"}))

\* days of the two runs: the first and last day of data with two cutoffs, a
\* day in the windows of the first cutoff only, one in the windows of both,
\* and two in the windows of the second cutoff only
PairTimes ==
    {0, START_MARGIN_DAYS, CallCutoff, CallCutoff + PREDICT_DAYS,
     CallCutoff + PREDICT_DAYS + RECENT_DAYS, CallCutoff + 2 * PREDICT_DAYS}

\* the static file of both runs
PairStatic == <<StaticRow(1, NaN), StaticRow(2, 7)>>

\* the windows of cutoff c span [c - 365, c + 180)
InWindowsOf(t, c) == c - HISTORY_DAYS <= t /\ t < c + PREDICT_DAYS

\* a day in the windows of some cutoff other than B and outside those of B
OutsideOnly(t, cr, B) ==
    /\ ~InWindowsOf(t, B)
    /\ \E k \in 1..Len(schedule(cr)) :
          schedule(cr)[k] # B /\ InWindowsOf(t, schedule(cr)[k])

RemoveAt(T, n) == [k \in 1..(Len(T) - 1) |-> IF k < n THEN T[k] ELSE T[k + 1]]

\* the first run reads a crash file with at least two cutoffs; B is one of them
InitPair ==
    /\ InitCall
    /\ \E cr \in UNION {CrashTables(m, PairTimes) : m \in 1..MaxCrashes} :
          /\ Len(schedule(cr)) >= 2
          /\ \E raw \in PeopleFiles(cr), k \in 1..Len(schedule(cr)) :
                arg = [fn |-> "main", crashes |-> cr, people |-> load_people(raw),
                       alt_crashes |-> cr, alt_people |-> load_people(raw),
                       static_feats |-> PairStatic, B |-> schedule(cr)[k],
                       edited |-> {}]

\* the second run differs by at most one crash and one person
CanEdit(file) == pc = "call" /\ arg.fn = "main" /\ file \notin arg.edited

EditFrame == UNCHANGED <<pc, crashes, people, cutoff_dates, all_features,
                         static_data, combined, out_file, enriched_file, err,
                         ret>>

\* the second run's crash file has one more crash, dated outside B's windows
AddCrash ==
    /\ CanEdit("crashes")
    /\ \E t \in PairTimes, i \in Intersections :
          /\ OutsideOnly(t, arg.crashes, arg.B)
          /\ arg' = [arg EXCEPT
                       !.alt_crashes =
                           @ \o load_crashes(<<CrashRow(Len(@) + 1, t, i)>>),
                       !.edited = @ \cup {"crashes"}]
    /\ EditFrame

\* the second run's crash file lacks one crash dated outside B's windows
RemoveCrash ==
    /\ CanEdit("crashes")
    /\ \E n \in 1..Len(arg.alt_crashes) :
          /\ OutsideOnly(arg.alt_crashes[n].crash_dt, arg.crashes, arg.B)
          /\ arg' = [arg EXCEPT !.alt_crashes = RemoveAt(@, n),
                                !.edited = @ \cup {"crashes"}]
    /\ EditFrame

\* the second run's people file has one more person, dated outside B's windows
AddPerson ==
    /\ CanEdit("people")
    /\ \E t \in PairTimes, i \in Intersections, c \in {"FATAL"} :
          /\ OutsideOnly(t, arg.crashes, arg.B)
          /\ arg' = [arg EXCEPT !.alt_people = Append(@, PersonRow(t, i, c)),
                                !.edited = @ \cup {"people"}]
    /\ EditFrame

\* the second run's people file lacks one person dated outside B's windows
RemovePerson ==
    /\ CanEdit("people")
    /\ \E n \in 1..Len(arg.alt_people) :
          /\ OutsideOnly(arg.alt_people[n].crash_dt, arg.crashes, arg.B)
          /\ arg' = [arg EXCEPT !.alt_people = RemoveAt(@, n),
                                !.edited = @ \cup {"people"}]
    /\ EditFrame

\* both runs reach the save
RunBoth ==
    /\ pc = "call"
    /\ arg.fn = "main"
    /\ ret' = [first |-> main_table(arg.crashes, arg.people, arg.static_feats),
               second |-> main_table(arg.alt_crashes, arg.alt_people,
                                     arg.static_feats),
               first_schedule |-> schedule(arg.crashes),
               second_schedule |-> schedule(arg.alt_crashes)]
    /\ pc' = "returned"
    /\ UNCHANGED <<crashes, people, cutoff_dates, all_features, static_data,
                   combined, out_file, err, arg, enriched_file>>

NextPair ==
    \/ AddCrash
    \/ RemoveCrash
    \/ AddPerson
    \/ RemovePerson
    \/ RunBoth

SpecPair == InitPair /\ [][NextPair]_vars

----------------------------------------------------------------------------
(* Two runs of main() on input files that differ by incomplete rows *)

\* days of the complete rows: the first day of data, a day in the history
\* window of the first cutoff, the first cutoff, and the last day of data
\* with one and with two cutoffs
DirtyRunTimes ==
    {START_MARGIN_DAYS, HISTORY_DAYS,
     START_MARGIN_DAYS + CallCutoff,
     START_MARGIN_DAYS + CallCutoff + PREDICT_DAYS,
     START_MARGIN_DAYS + CallCutoff + 2 * PREDICT_DAYS}

\* crash rows that load_crashes drops: no intersection and dated before or
\* after every complete row, no date, a date text that does not parse
IncompleteCrashRows(k) ==
    { CrashRow(k, 0, NaN),
      CrashRow(k, START_MARGIN_DAYS + CallCutoff + 3 * PREDICT_DAYS, NaN),
      CrashRow(k, NaN, 2), CrashRow(k, BadDate, 1) }

\* people rows that load_people drops
IncompletePersonRows ==
    { PersonRow(HISTORY_DAYS, NaN, "FATAL"), PersonRow(NaT, 2, "FATAL"),
      PersonRow(BadDate, 1, "FATAL") }

\* the first run reads complete files that give at least one cutoff
InitDirty ==
    /\ InitCall
    /\ \E cf \in CleanCrashFiles(MaxCrashes, DirtyRunTimes) :
          /\ load_crashes(cf) # <<>>
          /\ schedule(load_crashes(cf)) # <<>>
          /\ \E pf \in {<<>>} \cup
                        { <<PersonRow(cf[k].crash_date, cf[k].intersection_id,
                                      "FATAL")>> : k \in 1..Len(cf) } :
                arg = [fn |-> "main_files", crash_file |-> cf,
                       people_file |-> pf, alt_crash_file |-> cf,
                       alt_people_file |-> pf, static_feats |-> PairStatic,
                       edited |-> {}]

CanInsert(file) == pc = "call" /\ arg.fn = "main_files" /\ file \notin arg.edited

\* the second run's crash file has one more row, an incomplete one, before
\* or after the complete rows
InsertIncompleteCrash ==
    /\ CanInsert("crashes")
    /\ \E d \in IncompleteCrashRows(Len(arg.crash_file) + 1) :
       \E f \in {<<d>> \o arg.crash_file, Append(arg.crash_file, d)} :
          arg' = [arg EXCEPT !.alt_crash_file = f,
                             !.edited = @ \cup {"crashes"}]
    /\ EditFrame

\* the second run's people file has one more row, an incomplete one
InsertIncompletePerson ==
    /\ CanInsert("people")
    /\ \E d \in IncompletePersonRows :
       \E f \in {<<d>> \o arg.people_file, Append(arg.people_file, d)} :
          arg' = [arg EXCEPT !.alt_people_file = f,
                             !.edited = @ \cup {"people"}]
    /\ EditFrame

\* both runs load their files and reach the save
RunBothFiles ==
    /\ pc = "call"
    /\ arg.fn = "main_files"
    /\ LET cr == load_crashes(arg.crash_file)
           pe == load_people(arg.people_file)
           alt_cr == load_crashes(arg.alt_crash_file)
           alt_pe == load_people(arg.alt_people_file)
       IN  ret' = [first_crashes |-> cr, first_people |-> pe,
                   second_crashes |-> alt_cr, second_people |-> alt_pe,
                   first_schedule |-> schedule(cr),
                   second_schedule |-> schedule(alt_cr),
                   first |-> main_table(cr, pe, arg.static_feats),
                   second |-> main_table(alt_cr, alt_pe, arg.static_feats)]
    /\ pc' = "returned"
    /\ UNCHANGED <<crashes, people, cutoff_dates, all_features, static_data,
                   combined, out_file, err, arg, enriched_file>>

NextDirty ==
    \/ InsertIncompleteCrash
    \/ InsertIncompletePerson
    \/ RunBothFiles

SpecDirty == InitDirty /\ [][NextDirty]_vars

----------------------------------------------------------------------------
(* check_temporal_leakage.py: the temporal-integrity checker.               *)
(* A Python str is a TLA+ string; a parquet file is its column names, in    *)
(* order, and its rows; what the checker prints is a list of messages.      *)

\* a parquet file that does not exist
NoFile == [exists |-> FALSE, columns |-> <<>>, rows |-> <<>>]
\* a parquet file with the columns cols and the rows T
Parquet(cols, T) == [exists |-> TRUE, columns |-> cols, rows |-> T]

\* t in s
str_in(t, s) ==
    \E k \in 0..(Len(s) - Len(t)) : SubSeq(s, k + 1, k + Len(t)) = t

\* s.startswith(t)
startswith(s, t) == Len(s) >= Len(t) /\ SubSeq(s, 1, Len(t)) = t

\* s.endswith(t)
endswith(s, t) ==
    Len(s) >= Len(t) /\ SubSeq(s, Len(s) - Len(t) + 1, Len(s)) = t

ascii_uppercase == "ABCDEFGHIJKLMNOPQRSTUVWXYZ"
ascii_lowercase == "abcdefghijklmnopqrstuvwxyz"

\* the lower-case letter of each upper-case letter
to_lower ==
    [c \in {SubSeq(ascii_uppercase, k, k) : k \in 1..Len(ascii_uppercase)} |->
        LET k == CHOOSE k \in 1..Len(ascii_uppercase) :
                     SubSeq(ascii_uppercase, k, k) = c
        IN  SubSeq(ascii_lowercase, k, k)]

\* str.lower() of one character
lower_char(c) == IF c \in DOMAIN to_lower THEN to_lower[c] ELSE c

\* s.lower()
RECURSIVE lower(_)
lower(s) ==
    IF \A k \in 1..Len(s) : SubSeq(s, k, k) \notin DOMAIN to_lower THEN s
    ELSE lower_char(SubSeq(s, 1, 1)) \o lower(SubSeq(s, 2, Len(s)))

\* sep.join(ss)
RECURSIVE join(_, _)
join(sep, ss) ==
    IF ss = <<>> THEN ""
    ELSE IF Len(ss) = 1 THEN ss[1]
    ELSE ss[1] \o sep \o join(sep, Tail(ss))

\* str(ss) of a list of strings
str_list(ss) ==
    "[" \o join(", ", [k \in 1..Len(ss) |-> "'" \o ss[k] \o "'"]) \o "]"

\* c in cols
in_columns(c, cols) == \E k \in 1..Len(cols) : cols[k] = c

\* s[:n]
first_n(s, n) == SubSeq(s, 1, IF Len(s) < n THEN Len(s) ELSE n)

\* lines 35-44: a printed line, with the names and the value it shows
Msg(level, what, names, value) ==
    [level |-> level, what |-> what, names |-> names, value |-> value]
NoValue == <<>>

\* what a check gives back: the exception it raised if any, its has_issue,
\* and what it printed
Returns(has_issue, out) ==
    [raised |-> NoError, has_issue |-> has_issue, out |-> out]
Raises(e, out) == [raised |-> e, has_issue |-> FALSE, out |-> out]

\* lines 66 and 87
future_cols(cols) == SelectSeq(cols, LAMBDA col : str_in("future", lower(col)))

\* lines 47-102
check_non_temporal_features(non_temp, enriched) ==
    LET non_temp_future == future_cols(non_temp.columns)
        enriched_future == future_cols(enriched.columns)
        has_issue == non_temp.exists /\ non_temp_future # <<>>
        out1 ==
            IF non_temp.exists
            THEN <<Msg("warning", "intersection_features.parquet exists",
                       <<>>, NoValue)>>
                 \o (IF non_temp_future # <<>>
                     THEN <<Msg("error", "Contains future features (TEMPORAL LEAKAGE RISK)",
                                non_temp_future, NoValue)>>
                     ELSE <<>>)
            ELSE <<Msg("success", "intersection_features.parquet not found",
                       <<>>, NoValue)>>
        out2 ==
            IF enriched.exists
            THEN <<Msg("success", "intersection_features_enriched.parquet exists",
                       <<>>, NoValue)>>
                 \o (IF enriched_future # <<>>
                     THEN <<Msg("warning", "Contains future features",
                                enriched_future, NoValue)>>
                     ELSE <<Msg("success", "No future features found",
                                <<>>, NoValue)>>)
            ELSE <<>>
    IN  Returns(has_issue, out1 \o out2)

\* Series.mean(): the sum and the number of the values, NaN when there are none
mean(vals) == [sum |-> SumSeq(vals), n |-> Len(vals)]

\* lines 157-159
feature_cols(cols) ==
    SelectSeq(cols,
              LAMBDA col :
                  /\ col \notin {"intersection_id", "cutoff_date",
                                 "label_hotspot"}
                  /\ ~startswith(col, "future_"))

\* lines 161-162
suspicious_cols(cols) ==
    SelectSeq(feature_cols(cols),
              LAMBDA col :
                  LET lowered == lower(col)
                  IN  \E term \in {"future", "prediction", "predicted"} :
                          str_in(term, lowered))

\* lines 105-172
check_temporal_features(temporal) ==
    IF ~temporal.exists
    THEN Returns(FALSE,
                 <<Msg("warning", "intersection_features_temporal.parquet not found",
                       <<>>, NoValue)>>)
    ELSE
    LET feats == temporal.rows
        cols == temporal.columns
        exists_out ==
            <<Msg("success", "intersection_features_temporal.parquet exists",
                  <<>>, NoValue)>>
        has_cutoff == in_columns("cutoff_date", cols)
        \* lines 133-139
        dates ==
            SetToSortedSeq({to_datetime(feats[n].cutoff_date) :
                                n \in 1..Len(feats)})
        cutoff_out ==
            IF has_cutoff
            THEN <<Msg("success", "Has cutoff_date column with periods",
                       <<>>, Len(dates))>>
            ELSE <<Msg("error", "Missing 'cutoff_date' column", <<>>,
                       NoValue)>>
        \* line 140
        range_out ==
            IF has_cutoff
            THEN <<Msg("info", "Date range", <<>>,
                       <<dates[1], dates[Len(dates)]>>)>>
            ELSE <<>>
        has_future == in_columns("future_crashes", cols)
        future_out ==
            IF has_future
            THEN <<Msg("success", "Has future features for labels", <<>>,
                       NoValue)>>
            ELSE <<Msg("error", "Missing 'future_crashes' column", <<>>,
                       NoValue)>>
        \* lines 150-154
        label_out ==
            IF in_columns("label_hotspot", cols)
            THEN <<Msg("success", "Has hotspot labels (% positive)", <<>>,
                       mean(Column(feats, "label_hotspot")))>>
            ELSE <<Msg("warning", "Missing 'label_hotspot' column", <<>>,
                       NoValue)>>
        \* lines 164-170
        suspicious == suspicious_cols(cols)
        names_out ==
            IF suspicious # <<>>
            THEN <<Msg("warning", "Found suspicious feature names",
                       first_n(suspicious, 5), Len(suspicious))>>
            ELSE <<Msg("success", "No suspicious feature names detected",
                       <<>>, NoValue)>>
    IN  IF has_cutoff /\ dates = <<>>
        THEN Raises("IndexError", exists_out \o cutoff_out)
        ELSE Returns(~has_cutoff \/ ~has_future,
                     exists_out \o cutoff_out \o range_out \o future_out
                         \o label_out \o names_out)

\* a list of label columns without future_severity
label_cols_without_severity == <<"future_crashes", "label_hotspot">>

\* line 213
label_cols == <<"future_crashes", "future_severity", "label_hotspot">>

\* line 214
non_label_future(cols) ==
    SelectSeq(cols,
              LAMBDA col :
                  startswith(col, "future_") /\ ~in_columns(col, label_cols))

\* lines 175-225
check_feature_time_windows(temporal) ==
    IF ~temporal.exists
    THEN Returns(FALSE,
                 <<Msg("warning", "Temporal features not found (skipping)",
                       <<>>, NoValue)>>)
    ELSE IF ~in_columns("cutoff_date", temporal.columns)
    THEN Returns(TRUE,
                 <<Msg("error", "Cannot validate time windows without cutoff_date",
                       <<>>, NoValue)>>)
    ELSE
    LET cols == temporal.columns
        future_features ==
            SelectSeq(cols, LAMBDA col : startswith(col, "future_"))
        windows_out ==
            <<Msg("success", "Feature time windows", <<>>,
                  <<Len(SelectSeq(cols, LAMBDA col : startswith(col, "hist_"))),
                    Len(SelectSeq(cols,
                                  LAMBDA col : startswith(col, "recent90_"))),
                    Len(future_features)>>)>>
        non_label == non_label_future(cols)
        label_only_out ==
            IF future_features = <<>> THEN <<>>
            ELSE IF non_label # <<>>
            THEN <<Msg("error", "Found future features that aren't labels",
                       non_label, Len(non_label))>>
            ELSE <<Msg("success", "All future features are appropriately used for labels",
                       <<>>, NoValue)>>
    IN  Returns(non_label # <<>>, windows_out \o label_only_out)

\* a notebook file: json_ok tells whether json.load accepts it; a cell has a
\* cell_type and, unless has_source is FALSE, a list of source lines
Notebook(name, json_ok, cells) ==
    [name |-> name, json_ok |-> json_ok, cells |-> cells]
Cell(cell_type, has_source, source) ==
    [cell_type |-> cell_type, has_source |-> has_source, source |-> source]
CodeCell(source) == Cell("code", TRUE, source)

\* the notebooks directory
NoDir == [exists |-> FALSE, files |-> <<>>]
Dir(files) == [exists |-> TRUE, files |-> files]

\* line 243: a name matched by *modeling*.ipynb
glob_modeling(name) ==
    /\ endswith(name, ".ipynb")
    /\ str_in("modeling", SubSeq(name, 1, Len(name) - Len(".ipynb")))

\* lines 252-257
leakage_indicators ==
    <<"future_crashes", "future_severity", "intersection_features.parquet",
      "train_test_split">>

\* lines 269-270
code_cells(nb) == SelectSeq(nb.cells, LAMBDA cell : cell.cell_type = "code")

\* line 273
all_code(nb) ==
    join("\n", [k \in 1..Len(code_cells(nb)) |->
                   join("", code_cells(nb)[k].source)])

\* lines 276-280
found_indicators(code) ==
    SelectSeq(leakage_indicators, LAMBDA indicator : str_in(indicator, code))

\* any indicator found counts as a use of a future column
future_in_found_any(found) == found # <<>>

\* line 283
future_in_found(found) == str_in("future_", str_list(found))

\* lines 259-298, one notebook: the exception caught if any, and the
\* indicators found
scan_notebook(nb) ==
    IF ~nb.json_ok
    THEN [caught |-> "JSONDecodeError", found |-> <<>>]
    ELSE IF \E k \in 1..Len(code_cells(nb)) : ~code_cells(nb)[k].has_source
    THEN [caught |-> "KeyError", found |-> <<>>]
    ELSE [caught |-> NoError, found |-> found_indicators(all_code(nb))]

\* lines 259-298, the loop
RECURSIVE scan_loop(_, _, _, _)
scan_loop(nbs, has_issue, issues_found, out) ==
    IF nbs = <<>>
    THEN [raised |-> NoError, has_issue |-> has_issue,
          issues_found |-> issues_found, out |-> out]
    ELSE
    LET nb == Head(nbs)
        r == scan_notebook(nb)
        leak == r.caught = NoError /\ r.found # <<>> /\ future_in_found(r.found)
        line ==
            IF r.caught # NoError
            THEN Msg("warning", "Could not scan", <<nb.name>>, r.caught)
            ELSE IF leak
            THEN Msg("error", "Contains potential leakage indicators",
                     <<nb.name>>, r.found)
            ELSE IF r.found # <<>>
            THEN Msg("warning", "Contains leakage-related terms",
                     <<nb.name>>, r.found)
            ELSE Msg("success", "No obvious leakage indicators found",
                     <<nb.name>>, NoValue)
    IN  scan_loop(Tail(nbs), has_issue \/ leak,
                  IF leak THEN Append(issues_found, nb.name)
                  ELSE issues_found,
                  Append(out, line))

\* lines 228-300
scan_notebooks_for_leakage(notebooks_dir) ==
    IF ~notebooks_dir.exists
    THEN [raised |-> NoError, has_issue |-> FALSE, issues_found |-> <<>>,
          out |-> <<Msg("warning", "notebooks/ directory not found", <<>>,
                        NoValue)>>]
    ELSE
    LET modeling_notebooks ==
            SelectSeq(notebooks_dir.files, LAMBDA nb : glob_modeling(nb.name))
    IN  IF modeling_notebooks = <<>>
        THEN [raised |-> NoError, has_issue |-> FALSE, issues_found |-> <<>>,
              out |-> <<Msg("warning", "No modeling notebooks found", <<>>,
                            NoValue)>>]
        ELSE scan_loop(modeling_notebooks, FALSE, <<>>, <<>>)

\* the files a check leaves without a temporal table
files_after_check_table_removed(disk) == [disk EXCEPT !.temporal = NoFile]

\* lines 47-300: the checks open the files for reading only (read_parquet
\* at 62, 83, 125 and 190, open(nb_path, "r") at 265) and assign to frames
\* in memory only (line 133)
files_after_check(disk) == disk

----------------------------------------------------------------------------
(* main() of check_temporal_leakage.py, one action per check *)

\* rows of a temporal table in a model run
MaxTableRows == 2

\* intersection_features.parquet: absent, without and with the label source
NonTemporalFiles ==
    { NoFile,
      Parquet(<<"intersection_id", "hist_crashes", "label_hotspot">>, <<>>),
      Parquet(<<"intersection_id", "hist_crashes", "future_crashes",
                "label_hotspot">>, <<>>) }

\* intersection_features_enriched.parquet
EnrichedFiles ==
    { NoFile,
      Parquet(<<"intersection_id", "future_crashes", "centrality_degree">>,
              <<>>) }

\* columns besides the three the checker looks for: none, the second label
\* source, an injury aggregate of the future window, a name with a capital,
\* and six names with a deny-listed term inside
ExtraColumns ==
    { <<>>,
      <<"future_severity">>,
      <<"future_injuries_total">>,
      <<"Predicted_risk">>,
      <<"prediction_a", "prediction_b", "predicted_a", "predicted_b",
        "next_future_a", "next_future_b">> }

\* the column lists of the temporal tables
TemporalColumns ==
    { <<"intersection_id", "hist_crashes">>
        \o SelectSeq(<<"cutoff_date", "future_crashes", "label_hotspot">>,
                     LAMBDA col : col \in present)
        \o extra :
      present \in SUBSET {"cutoff_date", "future_crashes", "label_hotspot"},
      extra \in ExtraColumns }

\* the cutoffs of a table: the first two of data starting at day 0
TableCutoffs == {CallCutoff, CallCutoff + PREDICT_DAYS}

\* a row of a temporal table with the columns cols
TableRow(cols, c, l) ==
    [col \in {"cutoff_date", "label_hotspot"}
               \cap {cols[k] : k \in 1..Len(cols)} |->
        IF col = "cutoff_date" THEN c ELSE l]

\* the tables of m rows, grouped by cutoff
TableRows(cols, m) ==
    { [n \in 1..m |-> TableRow(cols, f[n][1], f[n][2])] :
        f \in { g \in [1..m -> TableCutoffs \X {0, 1}] :
                  \A n \in 1..(m - 1) :
                      \/ g[n][1] < g[n + 1][1]
                      \/ g[n][1] = g[n + 1][1] /\ g[n][2] <= g[n + 1][2] } }

\* intersection_features_temporal.parquet
TemporalFiles ==
    {NoFile} \cup
    UNION { { Parquet(cols, T) :
                T \in UNION {TableRows(cols, m) : m \in 0..MaxTableRows} } :
            cols \in TemporalColumns }

\* notebooks: a clean modeling notebook, one that reads a future column,
\* one that only splits at random, one that names a future column in its
\* text only, one that is not JSON, one whose code cell has no source, one
\* that builds the column name over two lines, and a notebook that is not a
\* modeling notebook
CleanNb ==
    Notebook("04_modeling.ipynb", TRUE,
             <<CodeCell(<<"model.fit(X, y)\n", "model.score(X, y)">>)>>)
LeakyNb ==
    Notebook("05_modeling_leaky.ipynb", TRUE,
             <<CodeCell(<<"X = df.drop(columns=['label_hotspot'])\n">>),
               CodeCell(<<"X['future_crashes'].mean()">>)>>)
SplitNb ==
    Notebook("06_modeling_split.ipynb", TRUE,
             <<CodeCell(<<"train_test_split(X, y)">>)>>)
TextNb ==
    Notebook("07_modeling_notes.ipynb", TRUE,
             <<Cell("markdown", TRUE, <<"future_crashes is the label source">>),
               CodeCell(<<"model.fit(X, y)">>)>>)
BrokenNb == Notebook("08_modeling_broken.ipynb", FALSE, <<>>)
NoSourceNb ==
    Notebook("09_modeling_nosource.ipynb", TRUE,
             <<CodeCell(<<"y = df['future_severity']">>),
               Cell("code", FALSE, <<>>)>>)
TwoLineNb ==
    Notebook("10_modeling_two_lines.ipynb", TRUE,
             <<CodeCell(<<"col = 'future_", "severity'">>)>>)
EdaNb ==
    Notebook("01_eda.ipynb", TRUE, <<CodeCell(<<"df['future_crashes']">>)>>)

NotebookDirs ==
    { NoDir, Dir(<<>>), Dir(<<EdaNb>>), Dir(<<CleanNb>>),
      Dir(<<BrokenNb, SplitNb>>), Dir(<<LeakyNb, CleanNb>>),
      Dir(<<TextNb, EdaNb>>), Dir(<<NoSourceNb, TwoLineNb>>) }

\* the files of a run, and nothing found or printed yet
InitCheck ==
    /\ pc = "check_non_temporal_features"
    /\ crashes = <<>>
    /\ people = <<>>
    /\ cutoff_dates = <<>>
    /\ all_features = <<>>
    /\ static_data = <<>>
    /\ combined = <<>>
    /\ out_file = Absent
    /\ enriched_file = Absent
    /\ err = NoError
    /\ \E nt \in NonTemporalFiles, en \in EnrichedFiles, tp \in TemporalFiles,
          nbs \in NotebookDirs :
          arg = [fn |-> "check_main",
                 disk |-> [non_temporal |-> nt, enriched |-> en,
                           temporal |-> tp, notebooks |-> nbs]]
    /\ ret = [issues |-> <<>>, issues_found |-> <<>>, out |-> <<>>]

CheckFrame ==
    UNCHANGED <<crashes, people, cutoff_dates, all_features, static_data,
                combined, out_file, enriched_file>>

\* a check returned: its has_issue and its output are kept, the next runs
CheckReturned(r, next) ==
    /\ r.raised = NoError
    /\ ret' = [ret EXCEPT !.issues = Append(@, r.has_issue),
                          !.out = @ \o r.out]
    /\ arg' = [arg EXCEPT !.disk = files_after_check(@)]
    /\ pc' = next
    /\ UNCHANGED err
    /\ CheckFrame

\* a check raised: main() has no handler
CheckRaised(r) ==
    /\ r.raised # NoError
    /\ ret' = [ret EXCEPT !.out = @ \o r.out]
    /\ arg' = [arg EXCEPT !.disk = files_after_check(@)]
    /\ Fail(r.raised)
    /\ CheckFrame

\* line 351
CheckNonTemporal ==
    /\ pc = "check_non_temporal_features"
    /\ CheckReturned(check_non_temporal_features(arg.disk.non_temporal,
                                                 arg.disk.enriched),
                     "check_temporal_features")

\* line 352
CheckTemporal ==
    /\ pc = "check_temporal_features"
    /\ CheckReturned(check_temporal_features(arg.disk.temporal),
                     "check_feature_time_windows")

\* line 352, the check raises
CheckTemporalRaises ==
    /\ pc = "check_temporal_features"
    /\ CheckRaised(check_temporal_features(arg.disk.temporal))

\* line 353
CheckTimeWindows ==
    /\ pc = "check_feature_time_windows"
    /\ CheckReturned(check_feature_time_windows(arg.disk.temporal),
                     "scan_notebooks_for_leakage")

\* line 354
ScanNotebooks ==
    /\ pc = "scan_notebooks_for_leakage"
    /\ LET r == scan_notebooks_for_leakage(arg.disk.notebooks)
       IN  /\ ret' = [ret EXCEPT !.issues = Append(@, r.has_issue),
                                 !.issues_found = r.issues_found,
                                 !.out = @ \o r.out]
           /\ arg' = [arg EXCEPT !.disk = files_after_check(@)]
           /\ pc' = "summary"
           /\ UNCHANGED err
           /\ CheckFrame

\* line 367
any_issue == \E k \in 1..Len(ret.issues) : ret.issues[k]

\* lines 362-382: recommendations and summary, then sys.exit(1)
ExitFailure ==
    /\ pc = "summary"
    /\ any_issue
    /\ pc' = "exit_1"
    /\ UNCHANGED <<err, arg, ret>>
    /\ CheckFrame

\* lines 362-386: recommendations and summary, then main() returns
ReturnNoIssue ==
    /\ pc = "summary"
    /\ ~any_issue
    /\ pc' = "exit_0"
    /\ UNCHANGED <<err, arg, ret>>
    /\ CheckFrame

NextCheck ==
    \/ CheckNonTemporal
    \/ CheckTemporal
    \/ CheckTemporalRaises
    \/ CheckTimeWindows
    \/ ScanNotebooks
    \/ ExitFailure
    \/ ReturnNoIssue

SpecCheck == InitCheck /\ [][NextCheck]_vars

----------------------------------------------------------------------------
(* impute_missing_values.py: impute_features called on a table.  A frame    *)
(* is its column names, in order, and its rows.                             *)

\* rows of the table in a model run
MaxImputeRows == 2

\* a float nan held by a column of dtype object
ObjNaN == "<nan>"

\* the columns of dtype object among those of the model's tables
object_columns == {"community_name"}

\* Series.isna() of one value of the column
isna(col, v) == IF col \in object_columns THEN v \in {None, ObjNaN} ELSE v = NaN

\* feats[col].isna().sum()
isna_sum(feats, col) ==
    Cardinality({n \in 1..Len(feats.rows) : isna(col, feats.rows[n][col])})

\* feats[col] = feats[col].fillna(value)
fillna(feats, col, value) ==
    [feats EXCEPT !.rows =
        [n \in 1..Len(@) |->
            IF isna(col, @[n][col]) THEN [@[n] EXCEPT ![col] = value]
            ELSE @[n]]]

\* the values in increasing order
RECURSIVE sorted(_)
sorted(vals) ==
    IF vals = <<>> THEN <<>>
    ELSE LET k == CHOOSE k \in 1..Len(vals) :
                      \A j \in 1..Len(vals) : vals[k] <= vals[j]
         IN  <<vals[k]>> \o sorted(RemoveAt(vals, k))

\* feats[col].median(): of the values that are not missing, the middle one
\* or the mean of the two middle ones; NaN when every value is missing
median(feats, col) ==
    LET s == sorted(SelectSeq(Column(feats.rows, col),
                              LAMBDA v : ~isna(col, v)))
        n == Len(s)
    IN  IF n = 0 THEN NaN
        ELSE IF n % 2 = 1 THEN s[(n + 1) \div 2]
        ELSE (s[n \div 2] + s[n \div 2 + 1]) \div 2

\* lines 38-91
feature_categories ==
    [crash_counts |->
        <<"hist_crashes", "recent90_crashes", "future_crashes",
          "hist_severity", "recent90_severity", "future_severity">>,
     injury_counts |->
        <<"hist_people_injuries_total", "hist_people_injuries_fatal",
          "hist_people_injuries_incapacitating",
          "hist_people_injuries_nonincap",
          "recent90_people_injuries_total", "recent90_people_injuries_fatal",
          "recent90_people_injuries_incapacitating",
          "recent90_people_injuries_nonincap",
          "hist_injuries_total", "hist_injuries_fatal",
          "hist_injuries_incapacitating", "hist_injuries_nonincap",
          "recent90_injuries_total", "recent90_injuries_fatal",
          "recent90_injuries_incapacitating", "recent90_injuries_nonincap">>,
     centrality |->
        <<"centrality_degree", "centrality_closeness",
          "centrality_betweenness">>,
     demographics |->
        <<"acs_pop", "acs_median_income", "acs_households_with_vehicle",
          "acs_poverty_universe", "acs_vehicle_access_rate">>,
     categorical |-> <<"community_id", "community_name", "GEOID">>]

\* lines 93-100: the columns of the category that the frame has
identify_feature_types(feats, category) ==
    SelectSeq(feature_categories[category],
              LAMBDA col : in_columns(col, feats.columns))

\* lines 103-115
RECURSIVE impute_crash_counts(_, _)
impute_crash_counts(feats, cols) ==
    IF cols = <<>> THEN feats
    ELSE impute_crash_counts(fillna(feats, Head(cols), 0), Tail(cols))

\* lines 118-132
RECURSIVE impute_centrality(_, _)
impute_centrality(feats, cols) ==
    IF cols = <<>> THEN feats
    ELSE impute_centrality(
             IF isna_sum(feats, Head(cols)) > 0
             THEN fillna(feats, Head(cols), median(feats, Head(cols)))
             ELSE feats,
             Tail(cols))

\* line 148: feats[indicator_col] = feats[col].isna().astype(int)
missing_indicator(feats, col) ==
    LET indicator_col == col \o "_missing"
    IN  [columns |->
             IF in_columns(indicator_col, feats.columns) THEN feats.columns
             ELSE Append(feats.columns, indicator_col),
         exists |-> feats.exists,
         rows |->
             [n \in 1..Len(feats.rows) |->
                 [c \in DOMAIN feats.rows[n] \cup {indicator_col} |->
                     IF c = indicator_col
                     THEN (IF isna(col, feats.rows[n][col]) THEN 1 ELSE 0)
                     ELSE feats.rows[n][c]]]]

\* lines 143-159, one column
impute_one_demographic(feats, col) ==
    IF isna_sum(feats, col) > 0
    THEN IF median(feats, col) = NaN
         THEN missing_indicator(feats, col)
         ELSE fillna(missing_indicator(feats, col), col, median(feats, col))
    ELSE feats

\* lines 135-160
RECURSIVE impute_demographics(_, _)
impute_demographics(feats, cols) ==
    IF cols = <<>> THEN feats
    ELSE impute_demographics(impute_one_demographic(feats, Head(cols)),
                             Tail(cols))

\* line 172: astype(str) of a value of an object column
astype_str(v) ==
    IF v = None THEN "None" ELSE IF v = ObjNaN THEN "nan" ELSE v

\* lines 172-180: astype(str), then replace("nan", "UNKNOWN")
unknown_category(feats, col) ==
    [feats EXCEPT !.rows =
        [n \in 1..Len(@) |->
            [@[n] EXCEPT ![col] = IF astype_str(@) = "nan" THEN "UNKNOWN"
                                  ELSE astype_str(@)]]]

\* lines 163-183
RECURSIVE impute_categorical(_, _)
impute_categorical(feats, cols) ==
    IF cols = <<>> THEN feats
    ELSE impute_categorical(
             IF isna_sum(feats, Head(cols)) > 0
             THEN unknown_category(feats, Head(cols))
             ELSE feats,
             Tail(cols))

\* lines 196-197: the number of columns with a missing value
missing_columns(feats) ==
    Cardinality({k \in 1..Len(feats.columns) :
                    isna_sum(feats, feats.columns[k]) > 0})

\* lines 186-247
impute_features(feats) ==
    IF missing_columns(feats) = 0 THEN feats
    ELSE
    LET f1 == impute_crash_counts(
                  feats, identify_feature_types(feats, "crash_counts"))
        f2 == impute_crash_counts(
                  f1, identify_feature_types(feats, "injury_counts"))
        f3 == impute_centrality(
                  f2, identify_feature_types(feats, "centrality"))
        f4 == impute_demographics(
                  f3, identify_feature_types(feats, "demographics"))
    IN  impute_categorical(f4, identify_feature_types(feats, "categorical"))

\* the columns of the table: one of each category
ImputeColumns ==
    <<"intersection_id", "hist_crashes", "hist_injuries_total",
      "centrality_degree", "acs_pop", "community_name">>

\* a row: counts missing or 1, centrality and population missing or 2 or 4,
\* community missing or named
ImputeRow(i, cnt, cen, pop, name) ==
    [intersection_id |-> i, hist_crashes |-> cnt, hist_injuries_total |-> cnt,
     centrality_degree |-> cen, acs_pop |-> pop, community_name |-> name]

\* the tables of m rows whose missing community is written null
ImputeTables(m, null) ==
    { Parquet(ImputeColumns,
              [n \in 1..m |->
                  ImputeRow(n, f[n][1], f[n][2], f[n][3], f[n][4])]) :
        f \in [1..m -> {NaN, 1} \X {NaN, 2, 4} \X {NaN, 2, 4}
                          \X {null, "LOOP"}] }

InitImpute ==
    /\ InitCall
    /\ \E m \in 0..MaxImputeRows, null \in {None, ObjNaN} :
          \E feats \in ImputeTables(m, null) :
              arg = [fn |-> "impute_features", feats |-> feats]

\* impute_features(feats), and impute_features of what it returned
CallImputeFeatures ==
    /\ pc = "call"
    /\ arg.fn = "impute_features"
    /\ ret' = [once |-> impute_features(arg.feats),
               twice |-> impute_features(impute_features(arg.feats))]
    /\ pc' = "returned"
    /\ UNCHANGED <<crashes, people, cutoff_dates, all_features, static_data,
                   combined, out_file, enriched_file, err, arg>>

NextImpute == CallImputeFeatures

SpecImpute == InitImpute /\ [][NextImpute]_vars

----------------------------------------------------------------------------
(* The suggested temporal splits, computed on a sorted list of cutoffs *)

\* cutoff periods of the list in a model run
MaxPeriods == 100

\* the n up to 200 for which the double 0.7 * n is below the integer 7n/10
\* (0.7 * 90 = 62.99999999999999)
RoundedBelow == {90, 170, 180}

\* int(0.7 * n_periods), for n_periods up to 200
int_0_7(n) ==
    IF n \in RoundedBelow THEN (7 * n) \div 10 - 1 ELSE (7 * n) \div 10

\* a test range that starts at 0.85 n rounded up
int_0_85_rounded_up(n) == (85 * n + 99) \div 100

\* int(0.85 * n_periods), for n_periods up to 200
int_0_85(n) == (85 * n) \div 100

\* lines 247-250
suggested_splits(dates) ==
    LET n_periods == Len(dates)
    IN  [sorted_dates |-> dates,
         n_periods |-> n_periods,
         train_end_idx |-> int_0_7(n_periods),
         val_end_idx |-> int_0_85(n_periods)]

\* the sorted cutoffs of n periods: one every PREDICT_DAYS
PeriodDates(n) == [k \in 1..n |-> CallCutoff + (k - 1) * PREDICT_DAYS]

InitSplit ==
    /\ InitCall
    /\ \E n \in 1..MaxPeriods :
          arg = [fn |-> "suggested_splits", sorted_dates |-> PeriodDates(n)]

CallSuggestedSplits ==
    /\ pc = "call"
    /\ arg.fn = "suggested_splits"
    /\ ret' = suggested_splits(arg.sorted_dates)
    /\ pc' = "returned"
    /\ UNCHANGED <<crashes, people, cutoff_dates, all_features, static_data,
                   combined, out_file, enriched_file, err, arg>>

NextSplit == CallSuggestedSplits

SpecSplit == InitSplit /\ [][NextSplit]_vars

----------------------------------------------------------------------------
(* download_data.py: download_people, one action per iteration of the loop. *)
(* The remote table is the list of its rows; the server answers a request  *)
(* for `limit` rows from `offset` with the next rows of the table, at most  *)
(* page_cap of them.                                                        *)

\* rows of the remote table and the chunk of a model run
MaxRemoteRows == 6
MaxChunk == 3

\* line 47: pd.read_csv(url) of $limit and $offset
read_csv(remote, limit, offset, page_cap) ==
    LET size == IF limit < page_cap THEN limit ELSE page_cap
        last == IF offset + size < Len(remote) THEN offset + size
                ELSE Len(remote)
    IN  SubSeq(remote, offset + 1, last)

\* a page counted as the last one also when it is full
short_page_or_full(df, chunk) == Len(df) <= chunk

\* line 52
short_page(df, chunk) == Len(df) < chunk

\* line 56: pd.concat(frames, ignore_index=True)
concat(frames) == Flatten(frames)

InitDownload ==
    /\ pc = "request"
    /\ crashes = <<>>
    /\ people = <<>>
    /\ cutoff_dates = <<>>
    /\ all_features = <<>>
    /\ static_data = <<>>
    /\ combined = <<>>
    /\ out_file = Absent
    /\ enriched_file = Absent
    /\ err = NoError
    /\ \E chunk \in 1..MaxChunk, n \in 0..MaxRemoteRows :
          \E page_cap \in 1..chunk :
              arg = [fn |-> "download_people", chunk |-> chunk,
                     remote |-> [k \in 1..n |-> k], page_cap |-> page_cap]
    /\ ret = [frames |-> <<>>, offset |-> 0, requested |-> <<>>,
              pages |-> <<>>, people_csv |-> Absent]

DownloadFrame ==
    UNCHANGED <<crashes, people, cutoff_dates, all_features, static_data,
                combined, out_file, enriched_file, arg>>

\* lines 44-53, one iteration
RequestPage ==
    /\ pc = "request"
    /\ LET df == read_csv(arg.remote, arg.chunk, ret.offset, arg.page_cap)
       IN  /\ ret' = [ret EXCEPT
                        !.requested = Append(@, ret.offset),
                        !.pages = Append(@, df),
                        !.frames = IF df = <<>> THEN @ ELSE Append(@, df),
                        !.offset = @ + Len(df)]
           /\ pc' = IF df = <<>> \/ short_page(df, arg.chunk)
                    THEN "after_loop" ELSE "request"
    /\ UNCHANGED err
    /\ DownloadFrame

\* lines 54-55
NoPeopleData ==
    /\ pc = "after_loop"
    /\ ret.frames = <<>>
    /\ Fail("SystemExit")
    /\ UNCHANGED ret
    /\ DownloadFrame

\* lines 56-58
SavePeople ==
    /\ pc = "after_loop"
    /\ ret.frames # <<>>
    /\ ret' = [ret EXCEPT !.people_csv = File(concat(ret.frames))]
    /\ pc' = "done"
    /\ UNCHANGED err
    /\ DownloadFrame

NextDownload ==
    \/ RequestPage
    \/ NoPeopleData
    \/ SavePeople

\* download_people runs on its own: a step that can be taken is taken
SpecDownload ==
    InitDownload /\ [][NextDownload]_vars /\ WF_vars(NextDownload)

----------------------------------------------------------------------------
(* Properties.  The helpers below restate what a column should hold from    *)
(* the events themselves, without the operators of the pipeline.           *)

\* the number of events of intersection i dated in [lo, hi)
NumEvents(T, i, lo, hi) ==
    Cardinality({n \in 1..Len(T) :
                    /\ T[n].intersection_id = i
                    /\ lo <= T[n].crash_dt
                    /\ T[n].crash_dt < hi})

\* the indexes of the rows of T for intersection i
RowsOf(T, i) == {n \in 1..Len(T) : T[n].intersection_id = i}

\* the value of column col in the one row of i, 0 when i has no row
ValueOf(T, i, col) ==
    IF RowsOf(T, i) = {} THEN 0 ELSE T[CHOOSE n \in RowsOf(T, i) : TRUE][col]

Returned(fn) == pc = "returned" /\ arg.fn = fn

CountColumn == IF arg.fn = "aggregate_crashes" THEN "crashes_count"
               ELSE "injuries_total"

\* C1: aggregate_crashes and aggregate_injuries return exactly one row per
\* intersection that has an event with start <= crash_dt < end, the row's
\* count is the number of such events, and an intersection without such an
\* event has no row.
C1_OneRowPerIntersectionWithItsCount ==
    (Returned("aggregate_crashes") \/ Returned("aggregate_injuries")) =>
        \A i \in Intersections :
            LET k == NumEvents(arg.events, i, arg.start, arg.end)
            IN  /\ Cardinality(RowsOf(ret, i)) = (IF k > 0 THEN 1 ELSE 0)
                /\ k > 0 => ValueOf(ret, i, CountColumn) = k

\* The part of C1 that the code satisfies: the rows are right for both
\* aggregators and the count is right for aggregate_crashes.
C1_RowsAndCrashCount ==
    (Returned("aggregate_crashes") \/ Returned("aggregate_injuries")) =>
        \A i \in Intersections :
            LET k == NumEvents(arg.events, i, arg.start, arg.end)
            IN  /\ Cardinality(RowsOf(ret, i)) = (IF k > 0 THEN 1 ELSE 0)
                /\ (k > 0 /\ arg.fn = "aggregate_crashes")
                       => ValueOf(ret, i, "crashes_count") = k

\* C2: for the cutoff c of a build_features_for_cutoff call, the crash
\* columns of every intersection count disjoint sets of events: future_crashes
\* the events of [c, c + 180), hist_crashes those of [c - 365, c) and
\* recent90_crashes those of [c - 90, c); so an event at c is in future only,
\* an event at c + 180 is in none, and no event is in future and in history.
C2_BoundaryExclusivity ==
    Returned("build_features_for_cutoff") =>
        \A i \in Intersections :
            LET c == arg.cutoff_date
                ev == arg.crashes
            IN  /\ ValueOf(ret, i, "future_crashes") = NumEvents(ev, i, c, c + 180)
                /\ ValueOf(ret, i, "hist_crashes") = NumEvents(ev, i, c - 365, c)
                /\ ValueOf(ret, i, "recent90_crashes") = NumEvents(ev, i, c - 90, c)
                /\ ValueOf(ret, i, "hist_crashes") + ValueOf(ret, i, "future_crashes")
                       = NumEvents(ev, i, c - 365, c + 180)

\* a build whose crashes include one dated at the cutoff and one dated at
\* the end of the future window, for the same intersection
C2_Witness ==
    /\ Returned("build_features_for_cutoff")
    /\ \E n, m \in 1..Len(arg.crashes) :
          /\ arg.crashes[n].crash_dt = arg.cutoff_date
          /\ arg.crashes[m].crash_dt = arg.cutoff_date + 180
          /\ arg.crashes[n].intersection_id = arg.crashes[m].intersection_id
          /\ ValueOf(ret, arg.crashes[n].intersection_id, "future_crashes") = 1

\* C5: the schedule is strictly increasing, starts at the earliest crash
\* plus 365 + 90 days, and consecutive cutoffs are 180 days apart.
C5_ScheduleSpacing ==
    cutoff_dates # <<>> =>
        /\ \E n \in 1..Len(crashes) :
              /\ \A m \in 1..Len(crashes) : crashes[n].crash_dt <= crashes[m].crash_dt
              /\ cutoff_dates[1] = crashes[n].crash_dt + 365 + 90
        /\ \A k \in 1..(Len(cutoff_dates) - 1) :
              /\ cutoff_dates[k] < cutoff_dates[k + 1]
              /\ cutoff_dates[k + 1] - cutoff_dates[k] = 180

\* a schedule of at least two cutoffs
C5_Witness == Len(cutoff_dates) >= 2

\* the latest crash day
LatestCrash ==
    CHOOSE t \in {crashes[n].crash_dt : n \in 1..Len(crashes)} :
        \A m \in 1..Len(crashes) : crashes[m].crash_dt <= t

\* C6: every cutoff is at most the latest crash minus 180 days, and the
\* schedule is maximal: one more step past the last cutoff would exceed it.
C6_ScheduleWithinData ==
    cutoff_dates # <<>> =>
        /\ \A k \in 1..Len(cutoff_dates) : cutoff_dates[k] <= LatestCrash - 180
        /\ cutoff_dates[Len(cutoff_dates)] + 180 > LatestCrash - 180

\* a schedule whose last cutoff is exactly the latest crash minus 180 days
C6_Witness ==
    /\ cutoff_dates # <<>>
    /\ cutoff_dates[Len(cutoff_dates)] = LatestCrash - 180

\* the earliest crash day
EarliestCrash ==
    CHOOSE t \in {crashes[n].crash_dt : n \in 1..Len(crashes)} :
        \A m \in 1..Len(crashes) : t <= crashes[m].crash_dt

RangeTooShort ==
    /\ crashes # <<>>
    /\ EarliestCrash + 365 + 90 > LatestCrash - 180

\* C7: when the crash data range is too short, the schedule step ends the
\* run with an insufficient-data-range error raised by a validation of the
\* schedule, before any cutoff is built and without writing the output.
C7_InsufficientRangeValidated ==
    [][ (pc = "schedule" /\ RangeTooShort) =>
            /\ pc' = "failed"
            /\ err' = "InsufficientDataRangeError"
            /\ all_features' = <<>>
            /\ out_file' = Absent ]_vars

\* What the code does in that case: it still stops before any build and
\* writes nothing, but by the IndexError of cutoff_dates[0].
C7_FailsBeforeBuild ==
    [][ (pc = "schedule" /\ RangeTooShort) =>
            /\ pc' = "failed"
            /\ err' = "IndexError"
            /\ all_features' = <<>>
            /\ out_file' = Absent ]_vars

\* C8: the table of a build_features_for_cutoff call for cutoff c has a row
\* for intersection i exactly when i has a crash in [c - 365, c + 180) or an
\* injury in [c - 365, c), and every row carries cutoff_date = c.
C8_RowsOfAnyWindow ==
    Returned("build_features_for_cutoff") =>
        LET c == arg.cutoff_date
        IN  /\ \A i \in Intersections :
                  (RowsOf(ret, i) # {}) <=>
                      \/ NumEvents(arg.crashes, i, c - 365, c + 180) > 0
                      \/ NumEvents(arg.people, i, c - 365, c) > 0
            /\ \A n \in 1..Len(ret) :
                  /\ ret[n].cutoff_date = c
                  /\ ret[n].intersection_id \in Intersections

\* an intersection whose only event is a crash in the future window, next to
\* an intersection whose only event is an injury in the history window
C8_Witness ==
    /\ Returned("build_features_for_cutoff")
    /\ \E i, j \in Intersections :
          LET c == arg.cutoff_date
          IN  /\ NumEvents(arg.crashes, i, c - 365, c) = 0
              /\ NumEvents(arg.people, i, c - 365, c) = 0
              /\ NumEvents(arg.crashes, i, c, c + 180) > 0
              /\ NumEvents(arg.crashes, j, c - 365, c + 180) = 0
              /\ NumEvents(arg.people, j, c - 365, c) > 0
              /\ RowsOf(ret, i) # {}
              /\ RowsOf(ret, j) # {}

CrashColumns(w) == {w \o "_crashes", w \o "_severity"}

\* the window aggregate columns of row r are set, and 0 without an event
AggregatesFilled(r) ==
    LET c == r.cutoff_date
        i == r.intersection_id
        Filled(cols, T, lo, hi) ==
            \A col \in cols :
                /\ r[col] # NaN
                /\ NumEvents(T, i, lo, hi) = 0 => r[col] = 0
    IN  /\ Filled(CrashColumns("hist"), crashes, c - 365, c)
        /\ Filled(CrashColumns("recent90"), crashes, c - 90, c)
        /\ Filled(CrashColumns("future"), crashes, c, c + 180)
        /\ Filled(InjuryCols("hist"), people, c - 365, c)
        /\ Filled(InjuryCols("recent90"), people, c - 90, c)

\* C9: in every row of every per-cutoff table and of the persisted table,
\* each window aggregate column is non-null, and 0 when the intersection has
\* no event of that table in that window.
C9_AggregatesNonNull ==
    /\ \A k \in 1..Len(all_features) : \A n \in 1..Len(all_features[k]) :
          AggregatesFilled(all_features[k][n])
    /\ out_file.exists =>
          \A n \in 1..Len(out_file.rows) : AggregatesFilled(out_file.rows[n])

\* a persisted row whose history columns were filled with 0
C9_Witness ==
    /\ out_file.exists
    /\ \E n \in 1..Len(out_file.rows) :
          /\ out_file.rows[n].hist_crashes = 0
          /\ out_file.rows[n].hist_injuries_total = 0
          /\ out_file.rows[n].future_crashes > 0

NoNull(r) == \A col \in DOMAIN r : r[col] # NaN

\* C10 as stated: no join made after the fill, the static join of main
\* included, leaves a null in the persisted table.
C10_NoNullPersisted ==
    out_file.exists => \A n \in 1..Len(out_file.rows) : NoNull(out_file.rows[n])

\* C10 as amended: the fill comes after all merges of a cutoff, so a
\* per-cutoff table has no null at all; the joins made after it leave every
\* per-cutoff row and value in place, and the only column of the combined
\* and persisted table that can hold a null is a static attribute.
C10_FillAfterMerges ==
    /\ \A k \in 1..Len(all_features) : \A n \in 1..Len(all_features[k]) :
          NoNull(all_features[k][n])
    /\ pc \in {"label", "save", "suggest_splits", "done"} =>
          LET flat == Flatten(all_features)
          IN  /\ Len(combined) = Len(flat)
              /\ \A n \in 1..Len(flat) :
                    /\ \A col \in DOMAIN flat[n] : combined[n][col] = flat[n][col]
                    /\ \A col \in DOMAIN combined[n] :
                          combined[n][col] = NaN => col = "centrality_degree"
    /\ out_file.exists => out_file.rows = combined

\* a persisted row without static attributes next to filled aggregates
C10_Witness ==
    /\ out_file.exists
    /\ \E n \in 1..Len(out_file.rows) :
          /\ out_file.rows[n].centrality_degree = NaN
          /\ out_file.rows[n].recent90_crashes = 0

\* the rows of T stamped with cutoff c
Partition(T, c) == {n \in 1..Len(T) : T[n].cutoff_date = c}

\* the k-th smallest future_crashes among the rows idx of T
KthSmallest(T, idx, k) ==
    CHOOSE v \in {T[j].future_crashes : j \in idx} :
        /\ Cardinality({j \in idx : T[j].future_crashes < v}) < k
        /\ Cardinality({j \in idx : T[j].future_crashes <= v}) >= k

\* 100 times the 0.90 quantile (linear interpolation between the two
\* nearest order statistics) of future_crashes over the rows idx of T
Quantile90Times100(T, idx) ==
    LET pos == (Cardinality(idx) - 1) * 90
        lo == (pos \div 100) + 1
        fr == pos % 100
    IN  IF fr = 0 THEN 100 * KthSmallest(T, idx, lo)
        ELSE (100 - fr) * KthSmallest(T, idx, lo)
                 + fr * KthSmallest(T, idx, lo + 1)

\* C3: label_hotspot of a row with cutoff_date c is 1 exactly when its
\* future_crashes is at least the 0.90 quantile of future_crashes over the
\* rows with cutoff_date c only, else 0; in the scenario table exactly the
\* row with 10 future crashes is labelled 1.
C3_LabelPerPartition ==
    Returned("assign_labels") =>
        /\ Len(ret) = Len(arg.combined)
        /\ \A n \in 1..Len(ret) :
              /\ ret[n].cutoff_date = arg.combined[n].cutoff_date
              /\ ret[n].future_crashes = arg.combined[n].future_crashes
              /\ ret[n].label_hotspot =
                    (IF 100 * ret[n].future_crashes
                            >= Quantile90Times100(arg.combined,
                                   Partition(arg.combined, ret[n].cutoff_date))
                     THEN 1 ELSE 0)
        /\ arg.combined = ScenarioTable =>
              {n \in 1..Len(ret) : ret[n].label_hotspot = 1} = {10}

\* a labelled table of two partitions in which the same future count is
\* labelled 1 at one cutoff and 0 at the other
C3_Witness ==
    /\ Returned("assign_labels")
    /\ \E n, m \in 1..Len(ret) :
          /\ ret[n].cutoff_date # ret[m].cutoff_date
          /\ ret[n].future_crashes = ret[m].future_crashes
          /\ ret[n].label_hotspot = 1
          /\ ret[m].label_hotspot = 0

\* the rows of T stamped with cutoff c, in order
PartitionRows(T, c) == SelectSeq(T, LAMBDA r : r.cutoff_date = c)

\* C4: when the second run's events differ from the first run's only by
\* events dated in the windows of another cutoff and outside
\* [B - 365, B + 180), B is a cutoff of both runs, and the rows of partition
\* B (every feature value and label) and its label threshold are the same
\* in both runs.
C4_PartitionIndependence ==
    Returned("main") =>
        /\ ret.first_schedule = ret.second_schedule
        /\ PartitionRows(ret.first, arg.B) = PartitionRows(ret.second, arg.B)
        /\ Partition(ret.first, arg.B) # {} =>
              Quantile90Times100(ret.first, Partition(ret.first, arg.B))
                  = Quantile90Times100(ret.second, Partition(ret.second, arg.B))

\* two runs whose tables differ in another partition while partition B has rows
C4_Witness ==
    /\ Returned("main")
    /\ ret.first # ret.second
    /\ PartitionRows(ret.first, arg.B) # <<>>
    /\ arg.crashes # arg.alt_crashes
    /\ arg.people # arg.alt_people

\* no two rows of T share their (intersection_id, cutoff_date) pair
UniquePairs(T) ==
    \A n, m \in 1..Len(T) :
        (/\ T[n].intersection_id = T[m].intersection_id
         /\ T[n].cutoff_date = T[m].cutoff_date) => n = m

\* an intersection listed more than once in the static attributes file
ListedTwice(i) ==
    /\ enriched_file.exists
    /\ Cardinality(RowsOf(enriched_file.rows, i)) >= 2

\* C11: each (intersection_id, cutoff_date) pair occurs in at most one row
\* of the combined table, after the concatenation of the per-cutoff tables,
\* after the left join with the static attributes (even when the static
\* file lists an intersection several times) and in the persisted file.
C11_OneRowPerPair ==
    /\ UniquePairs(combined)
    /\ out_file.exists => UniquePairs(out_file.rows)
    /\ pc \in {"read_static", "label", "save", "suggest_splits", "done"} =>
          Len(combined) = Len(Flatten(all_features))

\* a persisted table with two rows for one cutoff and rows at two cutoffs
\* for an intersection that the static file lists twice
C11_Witness ==
    /\ out_file.exists
    /\ \E n, m, k \in 1..Len(out_file.rows) :
          LET T == out_file.rows
          IN  /\ ListedTwice(T[n].intersection_id)
              /\ T[m].intersection_id = T[n].intersection_id
              /\ T[m].cutoff_date # T[n].cutoff_date
              /\ T[k].cutoff_date = T[n].cutoff_date
              /\ T[k].intersection_id # T[n].intersection_id

\* the positions labelled 1
Positives(labels) == {n \in 1..Len(labels) : labels[n] = 1}

\* the largest value of a non-empty sequence of numbers
MaxOf(vals) ==
    CHOOSE v \in {vals[n] : n \in 1..Len(vals)} :
        \A n \in 1..Len(vals) : vals[n] <= v

\* 100 times the (1 - pct / 100) quantile of vals, from order statistics:
\* the k-th smallest value is the least v with at least k values <= v
QuantileTimes100(vals, pct) ==
    LET Kth(k) ==
            CHOOSE v \in {vals[n] : n \in 1..Len(vals)} :
                /\ Cardinality({n \in 1..Len(vals) : vals[n] < v}) < k
                /\ Cardinality({n \in 1..Len(vals) : vals[n] <= v}) >= k
        pos == (Len(vals) - 1) * (100 - pct)
        lo == (pos \div 100) + 1
        fr == pos % 100
    IN  IF fr = 0 THEN 100 * Kth(lo)
        ELSE (100 - fr) * Kth(lo) + fr * Kth(lo + 1)

\* rows at the threshold and rows at the maximum are labelled 1
TiesAndMaximumPositive(vals, labels, pct) ==
    \A n \in 1..Len(vals) :
        (\/ 100 * vals[n] = QuantileTimes100(vals, pct)
         \/ vals[n] = MaxOf(vals)) => labels[n] = 1

\* the positives are at least the fraction pct / 100 of the rows
AtLeastFraction(labels, pct) ==
    100 * Cardinality(Positives(labels)) >= pct * Len(labels)

C13_LabelMonotone ==
    Returned("label_rule") =>
        /\ Positives(ret.low) \subseteq Positives(ret.high)
        /\ Cardinality(Positives(ret.low)) <= Cardinality(Positives(ret.high))

\* a partition in which the larger fraction labels a row that the smaller
\* fraction does not, the positives of the smaller one being kept
C13_Witness ==
    /\ Returned("label_rule")
    /\ arg.f1 < arg.f2
    /\ Positives(ret.low) # {}
    /\ \E n \in Positives(ret.high) : n \notin Positives(ret.low)
    /\ \E n \in 1..Len(ret.high) : n \notin Positives(ret.high)

\* every step of main() up to the labelling has been made
ReadyToSave ==
    /\ cutoff_dates # <<>>
    /\ Len(all_features) = Len(cutoff_dates)
    /\ \A k \in 1..Len(cutoff_dates) :
          \A n \in 1..Len(all_features[k]) :
              all_features[k][n].cutoff_date = cutoff_dates[k]
    /\ enriched_file.exists
    /\ static_data = drop_duplicates(enriched_file.rows)
    /\ Len(combined) = Len(Flatten(all_features))
    /\ \A n \in 1..Len(combined) :
          {"centrality_degree", "label_hotspot"} \subseteq DOMAIN combined[n]

\* C14: the output file is written at most once per run, as the last step,
\* after every cutoff of the schedule has been built, the static attributes
\* have been read and joined and the rows have been labelled; a run that
\* fails while loading an input, building a cutoff or reading the static
\* attributes ends with an error and leaves the output file as it was.
\* The only failure after the write is the IndexError of the printout of
\* the suggested splits (line 252) on a table without rows.
C14_WriteOnceAtTheEnd ==
    /\ [](pc = "failed" => err # NoError)
    /\ [](out_file.exists =>
            (/\ out_file = File(combined)
             /\ \/ pc \in {"suggest_splits", "done"}
                \/ pc = "failed" /\ err = "IndexError" /\ combined = <<>>))
    /\ [][ /\ out_file' # out_file =>
               (/\ pc = "save"
                /\ pc' = "suggest_splits"
                /\ ~out_file.exists
                /\ ReadyToSave
                /\ out_file' = File(combined))
           /\ pc \in {"done", "failed"} => UNCHANGED vars
           /\ pc' = "failed" => (err' # NoError /\ out_file' = out_file) ]_vars

\* a run that built every cutoff, found no static attributes file, and
\* ended with an error without an output file
C14_Witness ==
    /\ pc = "failed"
    /\ err = "FileNotFoundError"
    /\ ~enriched_file.exists
    /\ cutoff_dates # <<>>
    /\ Len(all_features) = Len(cutoff_dates)
    /\ combined # <<>>
    /\ ~out_file.exists

\* a row with a null intersection_id or a null or unparsable timestamp
Incomplete(r, datecol) ==
    r.intersection_id = NaN \/ r[datecol] = NaN \/ r[datecol] = BadDate

\* the rows of the file f that are not incomplete, in file order
CompleteRows(f, datecol) == SelectSeq(f, LAMBDA r : ~Incomplete(r, datecol))

\* C15: an event with a null intersection_id or a null or unparsable
\* timestamp is removed by load_crashes / load_people: the loaded tables
\* hold exactly the complete rows of the files, and two runs whose files
\* differ only by such events have the same schedule and build the same
\* table, in which such an event has no row.
C15_IncompleteEventsDropped ==
    Returned("main_files") =>
        /\ Len(ret.second_crashes)
               = Len(CompleteRows(arg.alt_crash_file, "crash_date"))
        /\ \A n \in 1..Len(ret.second_crashes) :
              /\ ret.second_crashes[n].crash_record_id
                     = CompleteRows(arg.alt_crash_file, "crash_date")[n]
                           .crash_record_id
              /\ ret.second_crashes[n].crash_dt
                     = CompleteRows(arg.alt_crash_file, "crash_date")[n]
                           .crash_date
        /\ ret.second_people = CompleteRows(arg.alt_people_file, "crash_dt")
        /\ ret.first_crashes = ret.second_crashes
        /\ ret.first_people = ret.second_people
        /\ ret.first_schedule = ret.second_schedule
        /\ ret.first = ret.second
        /\ \A n \in 1..Len(ret.second) :
              ret.second[n].intersection_id \in Intersections

\* two runs that built a table with rows, the second from a crash file with
\* a row without intersection dated outside the range of the complete rows
\* and from a people file with an incomplete row
C15_Witness ==
    /\ Returned("main_files")
    /\ ret.second # <<>>
    /\ \E n \in 1..Len(arg.alt_crash_file) :
          /\ arg.alt_crash_file[n].intersection_id = NaN
          /\ \A m \in 1..Len(ret.second_crashes) :
                \/ arg.alt_crash_file[n].crash_date
                       < ret.second_crashes[m].crash_dt
                \/ arg.alt_crash_file[n].crash_date
                       > ret.second_crashes[m].crash_dt
    /\ Len(arg.alt_people_file) > Len(ret.second_people)

\* the weight of a most_severe_injury category, 1 for any other value
Weight(cat) ==
    IF cat = "FATAL" THEN 5
    ELSE IF cat = "INCAPACITATING INJURY" THEN 4
    ELSE IF cat = "NONINCAPACITATING INJURY" THEN 3
    ELSE IF cat = "REPORTED, NOT EVIDENT" THEN 2
    ELSE 1

\* the sum of the weights of the rows idx of T
RECURSIVE WeightOver(_, _)
WeightOver(T, idx) ==
    IF idx = {} THEN 0
    ELSE LET n == CHOOSE n \in idx : TRUE
         IN  Weight(T[n].most_severe_injury) + WeightOver(T, idx \ {n})

\* the crashes of intersection i dated in [lo, hi)
Qualifying(T, i, lo, hi) ==
    {n \in 1..Len(T) : /\ T[n].intersection_id = i
                       /\ lo <= T[n].crash_dt
                       /\ T[n].crash_dt < hi}

\* C16: for every intersection and window, severity_sum is the sum over
\* the qualifying crashes of the weight of most_severe_injury (FATAL 5,
\* INCAPACITATING INJURY 4, NONINCAPACITATING INJURY 3, REPORTED, NOT
\* EVIDENT 2, NO INDICATION OF INJURY 1), a crash with an unrecognised or
\* missing category counting 1.
C16_SeveritySum ==
    Returned("aggregate_crashes") =>
        /\ \A i \in Intersections :
              ValueOf(ret, i, "severity_sum")
                  = WeightOver(arg.events,
                               Qualifying(arg.events, i, arg.start, arg.end))
        /\ \A n \in 1..Len(arg.events) :
              arg.events[n].severity_wt = Weight(arg.events[n].most_severe_injury)

\* a window holding, for one intersection, a crash of a listed category next
\* to a crash whose category is missing or unrecognised
C16_Witness ==
    /\ Returned("aggregate_crashes")
    /\ \E i \in Intersections :
          LET q == Qualifying(arg.events, i, arg.start, arg.end)
          IN  /\ \E n, m \in q :
                    /\ arg.events[n].most_severe_injury
                           \in {"INCAPACITATING INJURY", "REPORTED, NOT EVIDENT"}
                    /\ arg.events[m].most_severe_injury
                           \in {None, "UNABLE TO DETERMINE"}
              /\ ValueOf(ret, i, "severity_sum") \in {3, 5}

\* what the aggregator of the calls returns for the table as it was given
FirstCall(start, end) ==
    IF arg.aggregator = "aggregate_crashes"
    THEN aggregate_crashes(arg.original, start, end)
    ELSE aggregate_injuries(arg.original, start, end)

RecentHistoryColumns ==
    { <<"recent90_crashes", "hist_crashes">>,
      <<"recent90_severity", "hist_severity">>,
      <<"recent90_injuries_total", "hist_injuries_total">>,
      <<"recent90_injuries_fatal", "hist_injuries_fatal">>,
      <<"recent90_injuries_incapacitating", "hist_injuries_incapacitating">>,
      <<"recent90_injuries_nonincap", "hist_injuries_nonincap">> }

\* C18: in every row of the table returned by build_features_for_cutoff
\* the recent-window value is at most the history-window value of the same
\* quantity, for the crash count, the severity sum and the four injury
\* columns; both are aggregated from the events, the recent window
\* [cutoff - 90, cutoff) lying inside the history window [cutoff - 365, cutoff).
C18_RecentWithinHistory ==
    Returned("build_features_for_cutoff") =>
        \A n \in 1..Len(ret) :
            /\ \A p \in RecentHistoryColumns :
                  /\ 0 <= ret[n][p[1]]
                  /\ ret[n][p[1]] <= ret[n][p[2]]
            /\ ret[n].recent90_crashes
                   = NumEvents(arg.crashes, ret[n].intersection_id,
                               arg.cutoff_date - 90, arg.cutoff_date)
            /\ ret[n].hist_crashes - ret[n].recent90_crashes
                   = NumEvents(arg.crashes, ret[n].intersection_id,
                               arg.cutoff_date - 365, arg.cutoff_date - 90)

\* a row with a crash in the recent window, an earlier crash in the history
\* window only, and an injury in the recent window
C18_Witness ==
    /\ Returned("build_features_for_cutoff")
    /\ \E n \in 1..Len(ret) :
          /\ ret[n].recent90_crashes = 1
          /\ ret[n].hist_crashes = 2
          /\ ret[n].recent90_severity < ret[n].hist_severity
          /\ ret[n].recent90_injuries_total = 1
          /\ ret[n].hist_injuries_total = 1

\* the cutoffs whose future window [c, c + 180) holds day t
FutureCutoffsOf(t) ==
    {k \in 1..Len(cutoff_dates) :
        cutoff_dates[k] <= t /\ t < cutoff_dates[k] + 180}

\* future_crashes of intersection i summed over the tables built so far
RECURSIVE FutureTotal(_, _)
FutureTotal(tables, i) ==
    IF tables = <<>> THEN 0
    ELSE ValueOf(Head(tables), i, "future_crashes")
             + FutureTotal(Tail(tables), i)

\* C19: the future windows of the cutoffs of the schedule are pairwise
\* disjoint: every crash is counted in the future_crashes of at most one
\* cutoff, and every crash dated in [first cutoff, last cutoff + 180 days)
\* in that of exactly one.
C19_FutureWindowsDisjoint ==
    /\ \A n \in 1..Len(crashes) :
          LET t == crashes[n].crash_dt
          IN  /\ Cardinality(FutureCutoffsOf(t)) <= 1
              /\ (/\ cutoff_dates # <<>>
                  /\ cutoff_dates[1] <= t
                  /\ t < cutoff_dates[Len(cutoff_dates)] + 180)
                     => Cardinality(FutureCutoffsOf(t)) = 1
    /\ \A k \in 1..Len(all_features) : \A i \in Intersections :
          ValueOf(all_features[k], i, "future_crashes")
              = NumEvents(crashes, i, cutoff_dates[k], cutoff_dates[k] + 180)
    /\ (cutoff_dates # <<>> /\ Len(all_features) = Len(cutoff_dates)) =>
          \A i \in Intersections :
              FutureTotal(all_features, i)
                  = NumEvents(crashes, i, cutoff_dates[1],
                              cutoff_dates[Len(cutoff_dates)] + 180)

\* every cutoff of a schedule of two built, with a crash dated at the second
\* cutoff: counted in the future of the second cutoff, not of the first
C19_Witness ==
    /\ Len(cutoff_dates) = 2
    /\ Len(all_features) = 2
    /\ \E n \in 1..Len(crashes) :
          /\ crashes[n].crash_dt = cutoff_dates[2]
          /\ ValueOf(all_features[1], crashes[n].intersection_id,
                     "future_crashes") = 0
          /\ ValueOf(all_features[2], crashes[n].intersection_id,
                     "future_crashes") = 1

\* the static value the file holds for intersection i: that of its first
\* row, null when the file has no row for i
StaticValueOf(i) ==
    IF RowsOf(enriched_file.rows, i) = {} THEN NaN
    ELSE enriched_file.rows[
             CHOOSE n \in RowsOf(enriched_file.rows, i) :
                 \A m \in RowsOf(enriched_file.rows, i) : n <= m
         ].centrality_degree

\* C20: the static attributes are attached by a left join on
\* intersection_id that only reads the static table: the join keeps every
\* combined row, once and with its values; an intersection has the same
\* static values at every cutoff, those of the static file, and keeps its
\* rows when the file does not list it; the builder never writes the file
\* intersection_features_enriched.parquet.
C20_StaticJoinReadOnly ==
    /\ [][enriched_file' = enriched_file]_vars
    /\ [](pc \in {"label", "save", "suggest_splits", "done"} =>
            LET flat == Flatten(all_features)
            IN  /\ Len(combined) = Len(flat)
                /\ \A n \in 1..Len(flat) :
                      /\ \A col \in DOMAIN flat[n] :
                            combined[n][col] = flat[n][col]
                      /\ combined[n].centrality_degree
                             = StaticValueOf(combined[n].intersection_id)
                /\ \A n, m \in 1..Len(combined) :
                      combined[n].intersection_id = combined[m].intersection_id
                          => combined[n].centrality_degree
                                 = combined[m].centrality_degree)
    /\ [](out_file.exists => out_file.rows = combined)

\* a persisted table with an intersection that has its static value at two
\* cutoffs and an intersection that the static file does not list
C20_Witness ==
    /\ out_file.exists
    /\ \E n, m, k \in 1..Len(out_file.rows) :
          LET T == out_file.rows
          IN  /\ T[n].intersection_id = T[m].intersection_id
              /\ T[n].cutoff_date # T[m].cutoff_date
              /\ T[n].centrality_degree # NaN
              /\ RowsOf(enriched_file.rows, T[k].intersection_id) = {}
              /\ T[k].centrality_degree = NaN

----------------------------------------------------------------------------
(* Properties of the temporal-integrity checker *)

\* main() of the checker ended by sys.exit(1) or by returning
CheckCompleted == arg.fn = "check_main" /\ pc \in {"exit_1", "exit_0"}

\* the temporal table lacks a column the checker requires
RequiredColumnMissing ==
    /\ arg.disk.temporal.exists
    /\ \E c \in {"cutoff_date", "future_crashes"} :
          ~in_columns(c, arg.disk.temporal.columns)

\* a finding that is a risk and no missing column: future columns in the
\* non-temporal table, a future_ column that is no label, a notebook that
\* reads a future column
RiskFinding ==
    \E k \in 1..Len(ret.out) :
        /\ ret.out[k].level = "error"
        /\ ret.out[k].what \in
               {"Contains future features (TEMPORAL LEAKAGE RISK)",
                "Found future features that aren't labels",
                "Contains potential leakage indicators"}

\* C21: the checker ends with a failure exit status if and only if a
\* required column is missing from the temporal table; findings that are
\* risk warnings only leave the exit status at success.
C21_FailureIffStructuralError ==
    CheckCompleted => (pc = "exit_1" <=> RequiredColumnMissing)

\* the part of C21 that holds: a missing required column gives exit status 1
C21_StructuralErrorFails ==
    (CheckCompleted /\ RequiredColumnMissing) => pc = "exit_1"

\* C22: whatever the files and notebooks are, main() of the checker runs
\* the four checks and reaches the summary; no exception raised inside a
\* check ends the run.
C22_NoUncaughtException == arg.fn = "check_main" => pc # "failed"

DenyListed(col) ==
    \E term \in {"future", "prediction", "predicted"} : str_in(term, lower(col))

\* the label-only columns
AllowList == {"future_crashes", "future_severity", "label_hotspot"}

\* a warning or an error of the report names the column
Reported(col) ==
    \E k \in 1..Len(ret.out) :
        /\ ret.out[k].level \in {"warning", "error"}
        /\ in_columns(col, ret.out[k].names)

\* C24: every column of the temporal table whose name contains a
\* deny-listed term and is not a label-only column is reported, however
\* many there are and whether or not the name starts with "future_".
C24_EveryDenyListedColumnReported ==
    CheckCompleted =>
        \A k \in 1..Len(arg.disk.temporal.columns) :
            LET col == arg.disk.temporal.columns[k]
            IN  (DenyListed(col) /\ col \notin AllowList) => Reported(col)

\* the labels of the rows of partition c
PartitionLabels(T, c) ==
    Column(SelectSeq(T, LAMBDA r : r.cutoff_date = c), "label_hotspot")

\* a positive rate outside the range of 8 to 15 percent
OutsidePlausibleRange(rate) ==
    100 * rate.sum < 8 * rate.n \/ 100 * rate.sum > 15 * rate.n

\* C25: the checker computes the positive rate of label_hotspot for each
\* cutoff_date partition of the temporal table, and flags every partition
\* whose rate is outside the plausible range.
C25_RatePerPartitionFlagged ==
    ( /\ CheckCompleted
      /\ arg.disk.temporal.exists
      /\ in_columns("cutoff_date", arg.disk.temporal.columns)
      /\ in_columns("label_hotspot", arg.disk.temporal.columns) )
    => \A n \in 1..Len(arg.disk.temporal.rows) :
          LET rate == PartitionLabels(arg.disk.temporal.rows,
                                      arg.disk.temporal.rows[n].cutoff_date)
          IN  \E k \in 1..Len(ret.out) :
                  /\ ret.out[k].what = "Has hotspot labels (% positive)"
                  /\ ret.out[k].value = mean(rate)
                  /\ OutsidePlausibleRange(mean(rate))
                         => ret.out[k].level \in {"warning", "error"}

\* the notebooks the scan looks at
ModelingNotebooks ==
    IF arg.disk.notebooks.exists
    THEN { arg.disk.notebooks.files[k] :
             k \in { j \in 1..Len(arg.disk.notebooks.files) :
                       glob_modeling(arg.disk.notebooks.files[j].name) } }
    ELSE {}

\* the notebook is JSON and each of its code cells has a source
Parsable(nb) ==
    /\ nb.json_ok
    /\ \A k \in 1..Len(nb.cells) :
          nb.cells[k].cell_type = "code" => nb.cells[k].has_source

\* a code cell of the notebook contains the text
CodeContains(nb, text) ==
    \E k \in 1..Len(nb.cells) :
        /\ nb.cells[k].cell_type = "code"
        /\ str_in(text, join("", nb.cells[k].source))

ReadsFuture(nb) ==
    Parsable(nb) /\ \E text \in {"future_crashes", "future_severity"} :
                        CodeContains(nb, text)

OnlyRelatedTerms(nb) ==
    /\ Parsable(nb)
    /\ ~ReadsFuture(nb)
    /\ \E text \in {"intersection_features.parquet", "train_test_split"} :
          CodeContains(nb, text)

\* the report has a line of that level and text about the notebook
Line(level, what, nb) ==
    \E k \in 1..Len(ret.out) :
        /\ ret.out[k].level = level
        /\ ret.out[k].what = what
        /\ ret.out[k].names = <<nb.name>>

\* C26: the scan looks at the code cells of every notebook matching
\* *modeling*.ipynb; the problematic notebooks are those whose code contains
\* future_crashes or future_severity, and has_issue tells whether there is
\* one; a notebook with only intersection_features.parquet or
\* train_test_split gets a warning and is no issue; a notebook that cannot
\* be read or parsed gets a warning and the scan goes on.
C26_NotebookScanRule ==
    (arg.fn = "check_main" /\ Len(ret.issues) = 4) =>
        /\ {ret.issues_found[k] : k \in 1..Len(ret.issues_found)}
               = {nb.name : nb \in {x \in ModelingNotebooks : ReadsFuture(x)}}
        /\ ret.issues[4] = (\E nb \in ModelingNotebooks : ReadsFuture(nb))
        /\ \A nb \in ModelingNotebooks :
              /\ ReadsFuture(nb) =>
                     Line("error", "Contains potential leakage indicators", nb)
              /\ OnlyRelatedTerms(nb) =>
                     Line("warning", "Contains leakage-related terms", nb)
              /\ ~Parsable(nb) => Line("warning", "Could not scan", nb)
              /\ \E k \in 1..Len(ret.out) : ret.out[k].names = <<nb.name>>

\* a scan that met a notebook it could not parse and then one that reads a
\* future column
C26_Witness ==
    /\ arg.fn = "check_main"
    /\ Len(ret.issues) = 4
    /\ ret.issues[4]
    /\ \E nb \in ModelingNotebooks : ~Parsable(nb)
    /\ \E nb \in ModelingNotebooks : ReadsFuture(nb)

\* the columns of the frame main() of the builder writes: those of
\* build_features_for_cutoff, the static attribute, the label
persisted_columns ==
    <<"intersection_id", "hist_crashes", "hist_severity",
      "hist_injuries_total", "hist_injuries_fatal",
      "hist_injuries_incapacitating", "hist_injuries_nonincap",
      "recent90_crashes", "recent90_severity",
      "recent90_injuries_total", "recent90_injuries_fatal",
      "recent90_injuries_incapacitating", "recent90_injuries_nonincap",
      "future_crashes", "future_severity", "cutoff_date",
      "centrality_degree", "label_hotspot">>

\* the file of the builder as the checker reads it
temporal_parquet == Parquet(persisted_columns, out_file.rows)

\* C27: when the builder completes, the table it wrote has the columns
\* cutoff_date, future_crashes and label_hotspot, its only columns
\* starting with "future_" are future_crashes and future_severity, and
\* check_temporal_features and check_feature_time_windows both return
\* has_issue = False on it.
C27_BuilderOutputPassesChecks ==
    pc = "done" =>
        /\ \A n \in 1..Len(out_file.rows) :
              DOMAIN out_file.rows[n]
                  = {persisted_columns[k] : k \in 1..Len(persisted_columns)}
        /\ \A c \in {"cutoff_date", "future_crashes", "label_hotspot"} :
              in_columns(c, temporal_parquet.columns)
        /\ { persisted_columns[k] :
               k \in { j \in 1..Len(persisted_columns) :
                         startswith(persisted_columns[j], "future_") } }
               = {"future_crashes", "future_severity"}
        /\ LET r == check_temporal_features(temporal_parquet)
           IN  r.raised = NoError /\ ~r.has_issue
        /\ LET r == check_feature_time_windows(temporal_parquet)
           IN  r.raised = NoError /\ ~r.has_issue

\* a completed run that wrote rows of two cutoffs
C27_Witness ==
    /\ pc = "done"
    /\ Len(sorted_dates(out_file.rows)) >= 2

----------------------------------------------------------------------------
(* Properties of impute_features *)

\* the columns of the five known categories
KnownColumns ==
    UNION { {feature_categories[cat][k] :
               k \in 1..Len(feature_categories[cat])} :
            cat \in DOMAIN feature_categories }

\* no value of a known column of the frame is missing
NoMissingInKnownColumns(feats) ==
    \A k \in 1..Len(feats.columns) :
        feats.columns[k] \in KnownColumns
            => isna_sum(feats, feats.columns[k]) = 0

\* the column has a value in some row
HasAValue(feats, col) == isna_sum(feats, col) < Len(feats.rows)

\* C28: after impute_features no column of the five known categories has a
\* missing value, also when a centrality or demographic column is missing
\* in every row; and imputing a second time changes nothing.
C28_NoMissingAndIdempotent ==
    Returned("impute_features") =>
        /\ NoMissingInKnownColumns(ret.once)
        /\ ret.twice = ret.once

\* the parts of C28 that hold: a second imputation changes nothing, and no
\* value is missing when each centrality and demographic column has a value
C28_IdempotentAndFilledWhenAValueExists ==
    Returned("impute_features") =>
        /\ ret.twice = ret.once
        /\ (HasAValue(arg.feats, "centrality_degree")
               /\ HasAValue(arg.feats, "acs_pop"))
             => NoMissingInKnownColumns(ret.once)

----------------------------------------------------------------------------
(* Properties of the suggested splits: periods are numbered from 0 *)

TrainRange == {k \in 0..(ret.n_periods - 1) : k < ret.train_end_idx}
ValRange ==
    {k \in 0..(ret.n_periods - 1) :
        ret.train_end_idx <= k /\ k < ret.val_end_idx}
TestRange == {k \in 0..(ret.n_periods - 1) : ret.val_end_idx <= k}

\* the cutoff of period k
PeriodCutoff(k) == ret.sorted_dates[k + 1]

\* C29: for n >= 1 sorted periods the ranges [0, int(0.7 n)),
\* [int(0.7 n), int(0.85 n)) and [int(0.85 n), n) are pairwise disjoint,
\* cover the n periods, every train cutoff is before every val cutoff and
\* every val cutoff before every test cutoff, and the test range is not
\* empty.
C29_ChronologicalPartition ==
    Returned("suggested_splits") =>
        /\ 0 <= ret.train_end_idx
        /\ ret.train_end_idx <= ret.val_end_idx
        /\ ret.val_end_idx < ret.n_periods
        /\ TrainRange \cap ValRange = {}
        /\ TrainRange \cap TestRange = {}
        /\ ValRange \cap TestRange = {}
        /\ TrainRange \cup ValRange \cup TestRange = 0..(ret.n_periods - 1)
        /\ Cardinality(TrainRange) = ret.train_end_idx
        /\ Cardinality(ValRange) = ret.val_end_idx - ret.train_end_idx
        /\ Cardinality(TestRange) = ret.n_periods - ret.val_end_idx
        /\ \A i \in TrainRange, j \in ValRange \cup TestRange :
              PeriodCutoff(i) < PeriodCutoff(j)
        /\ \A i \in ValRange, j \in TestRange :
              PeriodCutoff(i) < PeriodCutoff(j)
        /\ TestRange # {}

\* the splits of 90 periods, where int(0.7 n) is 62, and the three ranges
\* have periods
C29_Witness ==
    /\ Returned("suggested_splits")
    /\ ret.n_periods = 90
    /\ ret.train_end_idx = 62
    /\ TrainRange # {}
    /\ ValRange # {}
    /\ TestRange # {}

----------------------------------------------------------------------------
(* Properties of download_people *)

Downloading == arg.fn = "download_people"

\* the server answers each request with the rows asked for, as far as the
\* table has them
ExactPages == Downloading /\ arg.page_cap = arg.chunk

DownloadEnded == Downloading /\ pc \in {"done", "failed"}

\* the offsets requested grow by the rows received, the loop stops at the
\* first page that is empty or short, and nothing is written before the end
DownloadSteps ==
    /\ \A k \in 1..Len(ret.requested) :
          ret.requested[k] = SumSeq([j \in 1..(k - 1) |-> Len(ret.pages[j])])
    /\ \A k \in 1..(Len(ret.requested) - 1) :
          ret.requested[k] < ret.requested[k + 1]
    /\ \A k \in 1..(Len(ret.pages) - 1) : Len(ret.pages[k]) = arg.chunk
    /\ pc # "request" =>
          /\ ret.pages # <<>>
          /\ Len(ret.pages[Len(ret.pages)]) < arg.chunk
    /\ ret.people_csv.exists => pc = "done"
    /\ pc = "failed" =>
          (err = "SystemExit" /\ ret.pages = << <<>> >>
              /\ ~ret.people_csv.exists)

\* C30 as stated: for a remote table served in pages of at most chunk
\* rows, the saved file holds every remote row once and in order.
C30_EveryRowSaved ==
    (Downloading /\ pc = "done") => ret.people_csv = File(arg.remote)

\* C30: download_people terminates; it requests growing offsets, each the
\* sum of the rows received so far, and stops at the first page that is
\* empty or shorter than chunk; when the first page is empty it exits with
\* an error and writes nothing; when every page but the last holds chunk
\* rows, the saved file holds every remote row once and in order.
C30_DownloadTerminatesComplete ==
    /\ [](Downloading => DownloadSteps)
    /\ []((ExactPages /\ pc = "done") => ret.people_csv = File(arg.remote))
    /\ []((Downloading /\ arg.remote = <<>>) => pc # "done")
    /\ <>DownloadEnded

\* a table of two full pages and a short one, saved whole
C30_Witness ==
    /\ ExactPages
    /\ pc = "done"
    /\ Len(ret.pages) = 3
    /\ Len(ret.pages[3]) \in 1..(arg.chunk - 1)
    /\ ret.people_csv = File(arg.remote)

====
